---- MODULE Spec2Model ----
(***************************************************************************)
(* Model of the resumable concurrent harvesting engine of scrapper.py:     *)
(* CursorManager (reservation sets), ThreadSafeCounter (goal counter),    *)
(* processar_um_jogo (worker routine) and the parallel loop of main.       *)
(***************************************************************************)
EXTENDS Integers, Sequences, FiniteSets, TLC

(* ---------------------------- bounds ----------------------------------- *)
MaxAppId == 3
MaxTarget == 2
NThreads == 2
MaxCatalog == 3
MaxRuns == 2
MaxValue == 3
BatchSize == 2
CheckpointInterval == 1

AppIds == 1..MaxAppId
Threads == 1..NThreads

(* --------------------------- the state --------------------------------- *)
VARIABLES
    processed_appids,   \* CursorManager.processed_appids
    reserved_appids,    \* CursorManager.reserved_appids
    failed_appids,      \* CursorManager.failed_appids
    total_games_found,  \* CursorManager.total_games_found
    value,              \* ThreadSafeCounter._value
    max_value,          \* ThreadSafeCounter._max_value (0 stands for None)
    lastCall,           \* per thread: the last API call it saw and its result
    grants,             \* per id: reserve calls that returned True since the
                        \* id last left reserved_appids (history variable)
    stop_processing,    \* threading.Event stop_processing
    goal_reached,       \* threading.Event goal_reached
    goal_logs,          \* how often a worker did goal_reached.set() and logged
    progress_file,      \* the checkpoint file (see MissingFile, StateFile)
    backup_file,        \* the .backup file, likewise
    details_file,       \* game_details.jsonl: records written, per appid
    all_games,          \* the catalog (appids in catalog order)
    max_games,          \* args.max_games
    batch_size,         \* args.batch_size
    checkpoint_interval,\* args.checkpoint_interval
    parallel,           \* args.parallel
    inject,             \* the failures the environment may inject
    run,                \* number of the current run of main
    mpc,                \* position of the main thread
    remaining_games,    \* main: the shuffled remaining work
    batch_start,        \* main: first index (0-based) of the current batch
    next_submit,        \* main: next task index to submit in this batch
    yielded,            \* main: futures already yielded by as_completed
    checkpoint_counter, \* main: completed items since the last checkpoint
    pc,                 \* per task: position in processar_um_jogo
    current_count,      \* per task: value returned by its accepted increment
    temp_file,          \* the .tmp file save_state writes
    save_pc,            \* position inside a save_state taken step by step
    save_local,         \* save_state: its local dictionary state
    load_before,        \* what load_state returned on the files as they were
                        \* when that save_state began (history variable)
    proxies,            \* ProxyManager.proxies
    proxy_queue,        \* ProxyManager.proxy_queue
    failed_proxies,     \* ProxyManager.failed_proxies
    request,            \* the frame of make_request (see NoRequest)
    call,               \* the frame of the function that fetches (see NoFetch)
    net,                \* what the function under call did (history variable)
    lock_owner,         \* per lock: the thread that holds it (0 for none)
    lock_stack          \* per thread: its calls of lock-taking functions

Tasks == DOMAIN pc

cmVars == <<processed_appids, reserved_appids, failed_appids>>
counterVars == <<value, max_value>>
flagVars == <<stop_processing, goal_reached, goal_logs>>
diskVars == <<progress_file, backup_file, details_file>>
cfgVars == <<all_games, max_games, batch_size, checkpoint_interval, parallel,
             inject>>
mainVars == <<mpc, remaining_games, batch_start, next_submit, yielded,
              checkpoint_counter, run>>
taskVars == <<pc, current_count>>
saveVars == <<temp_file, save_pc, save_local, load_before>>
runVars == <<total_games_found, flagVars, diskVars, cfgVars, mainVars, taskVars,
             saveVars>>
lockVars == <<lock_owner, lock_stack>>
apiVars == <<lastCall, grants, lockVars>>
netVars == <<proxies, proxy_queue, failed_proxies, request, call, net>>
vars == <<cmVars, counterVars, apiVars, runVars, netVars>>

NoCall == [op |-> "none", id |-> 0, ret |-> FALSE, cur |-> 0]

\* the module-level locks of lines 23-29 and the _lock of ThreadSafeCounter
\* (line 295) and of ProgressTracker (line 655)
Locks == {"main_lock", "file_lock", "proxy_lock", "counter_lock",
          "tracker_lock"}

\* no thread is in a lock-taking function
NoLocks ==
    /\ lock_owner = [l \in Locks |-> 0]
    /\ lock_stack = [t \in Threads |-> <<>>]

\* None, the entry of the proxy queue that stands for the local address
None == 0

\* what make_request returns when it returns None, and the form of a response:
\* kind is "undecodable" when response.json() raises JSONDecodeError,
\* "not_object" when the decoded value has no get method, else "object";
\* entry tells whether data.get(str(appid)) is truthy, success is the value
\* under 'success', records the length of the list under 'reviews', cursor
\* whether the value under 'cursor' is truthy
NoResponse == [kind |-> "None", entry |-> FALSE, success |-> FALSE,
               records |-> 0, cursor |-> FALSE]

\* make_request is not running; log lists the outcomes of its requests.get
\* calls and entry tells whether its first flag test found a flag set
NoRequest == [pc |-> "idle", attempt |-> 0, retries |-> 0, proxies |-> None,
              response |-> NoResponse, log |-> <<>>, entry |-> FALSE]

\* no fetching function is running
NoFetch == [fn |-> "none", pc |-> "done", attempt |-> 0, page |-> 0,
            proxy |-> None, num_reviews |-> 0, max_pages |-> 0,
            reviews |-> <<>>, cursor |-> FALSE, result |-> "none",
            returned |-> <<>>]

NoHistory == [http |-> 0, draws |-> 0, checked |-> FALSE, entry |-> FALSE,
              pages |-> <<>>, marks |-> 0]

\* a ProxyManager built without a proxy file (lines 65-69, 73-74) and no
\* fetch under way
NetIdle ==
    /\ proxies = <<>>
    /\ proxy_queue = <<None>>
    /\ failed_proxies = {}
    /\ request = NoRequest
    /\ call = NoFetch
    /\ net = NoHistory

(* ------------------------- CursorManager ------------------------------- *)

\* reserve_appid without the test of reserved_appids
reserve_appid_NoReservedTest(appid, ret) ==
    /\ ret = ~(appid \in processed_appids \/ appid \in failed_appids)
    /\ reserved_appids' = IF ret THEN reserved_appids \cup {appid}
                                 ELSE reserved_appids
    /\ UNCHANGED <<processed_appids, failed_appids>>

\* CursorManager.reserve_appid, one critical section of main_lock
reserve_appid(appid, ret) ==
    /\ ret = ~(appid \in processed_appids \/ appid \in reserved_appids
                 \/ appid \in failed_appids)
    /\ reserved_appids' = IF ret THEN reserved_appids \cup {appid}
                                 ELSE reserved_appids
    /\ UNCHANGED <<processed_appids, failed_appids>>

\* CursorManager.mark_processed, one critical section of main_lock
mark_processed(appid, success) ==
    /\ reserved_appids' = reserved_appids \ {appid}
    /\ IF success
          THEN /\ processed_appids' = processed_appids \cup {appid}
               /\ failed_appids' = failed_appids \ {appid}
          ELSE /\ failed_appids' = failed_appids \cup {appid}
               /\ UNCHANGED processed_appids

\* CursorManager.release_reservation, one critical section of main_lock
release_reservation(appid) ==
    /\ reserved_appids' = reserved_appids \ {appid}
    /\ UNCHANGED <<processed_appids, failed_appids>>

(* ------------------------ ThreadSafeCounter ---------------------------- *)

\* increment whose limit test is off by one (> instead of >=)
increment_OffByOne(ok, cur) ==
    IF max_value # 0 /\ value > max_value
       THEN ok = FALSE /\ cur = value /\ value' = value
       ELSE ok = TRUE /\ cur = value + 1 /\ value' = value + 1

\* ThreadSafeCounter.increment: returns (ok, cur)
increment(ok, cur) ==
    IF max_value # 0 /\ value >= max_value
       THEN ok = FALSE /\ cur = value /\ value' = value
       ELSE ok = TRUE /\ cur = value + 1 /\ value' = value + 1

\* ThreadSafeCounter.decrement: max(0, value - 1)
decrement ==
    value' = IF value - 1 > 0 THEN value - 1 ELSE 0

\* ThreadSafeCounter.reached_limit
reached_limit == max_value # 0 /\ value >= max_value

(* ----------------------- files and pure helpers ------------------------ *)

EmptyState == [processed_appids |-> {}, reserved_appids |-> {},
               failed_appids |-> {}, total_games_found |-> 0]

\* A checkpoint file: whether it exists, whether json.load accepts it, the
\* values under its keys, and the first key whose conversion raises inside
\* the try block (1 processed_appids, 2 reserved_appids, 3 failed_appids:
\* set() of a value that is not iterable, or data.get on JSON that is not
\* an object; 0 when none raises).

\* a checkpoint file that does not exist
MissingFile == [exists |-> FALSE, parses |-> FALSE, bad |-> 0, state |-> EmptyState]

\* a checkpoint file holding the JSON of state st
StateFile(st) == [exists |-> TRUE, parses |-> TRUE, bad |-> 0, state |-> st]

\* the loop body of lines 164-181 reaches the break of line 178
Loads(file) == file.exists /\ file.parses /\ file.bad = 0

\* lines 164-181 for one file: the assignments of lines 168-172 run in
\* order into the dictionary st until one of them raises
ReadFile(st, file) ==
    IF ~(file.exists /\ file.parses) THEN st
    ELSE LET Reads(k) == file.bad = 0 \/ k < file.bad IN
         [processed_appids |-> IF Reads(1) THEN file.state.processed_appids
                                           ELSE st.processed_appids,
          reserved_appids |-> IF Reads(2) THEN file.state.reserved_appids
                                          ELSE st.reserved_appids,
          failed_appids |-> IF Reads(3) THEN file.state.failed_appids
                                        ELSE st.failed_appids,
          total_games_found |-> IF Reads(4) THEN file.state.total_games_found
                                            ELSE st.total_games_found]

\* CursorManager.load_state: the primary is read into the clean state; the
\* backup is read on top only when the primary did not reach the break
load_state(primary, backup) ==
    LET after_primary == ReadFile(EmptyState, primary) IN
    IF Loads(primary) THEN after_primary
                      ELSE ReadFile(after_primary, backup)

\* the state dictionary save_state builds under main_lock
Snapshot == [processed_appids |-> processed_appids,
             reserved_appids |-> reserved_appids,
             failed_appids |-> failed_appids,
             total_games_found |-> total_games_found]

\* CursorManager.save_state: rotate the primary to the backup, then write
\* the snapshot to the temporary file and move it over the primary
save_state ==
    /\ backup_file' = IF progress_file.exists THEN progress_file ELSE backup_file
    /\ progress_file' = StateFile(Snapshot)

\* get_existing_appids: the appids that have a record in the details file
get_existing_appids(file) == {a \in DOMAIN file : file[a] > 0}

\* number of records in the details file
TotalRecords(file) ==
    LET RECURSIVE Sum(_)
        Sum(S) == IF S = {} THEN 0
                  ELSE LET a == CHOOSE x \in S : TRUE IN file[a] + Sum(S \ {a})
    IN Sum(DOMAIN file)

\* get_remaining_games that leaves out the failed ids as well (what its
\* docstring says)
get_remaining_games_NoFailed(games, blocked) ==
    SelectSeq(games, LAMBDA a : a # 0 /\ a \notin blocked \cup failed_appids)

\* CursorManager.get_remaining_games: catalog entries with a truthy appid
\* that is neither processed nor reserved, in catalog order
get_remaining_games(games, blocked) ==
    SelectSeq(games, LAMBDA a : a # 0 /\ a \notin blocked)

\* random.shuffle: every reordering of the list (the list itself when the
\* environment pins the generator)
Shuffles(seq) ==
    IF "shuffle" \in inject
       THEN {[i \in 1..Len(seq) |-> seq[p[i]]] : p \in Permutations(1..Len(seq))}
       ELSE {seq}

(* --------------------- the worker: processar_um_jogo ------------------- *)

\* the routine returned: True, False after a successful claim, or False
\* before any claim (lines 538, 542, 547)
Returned(i) == pc[i] \in {"done_T", "done_F", "skip_F"}
Finished(i) == Returned(i) \/ pc[i] = "cancelled"
Running(i) == pc[i] \notin {"unsub", "pending", "cancelled"} /\ ~Returned(i)

\* the positions between a successful reserve_appid and the call that
\* takes the id out of reserved_appids again
HoldsReservation(p) ==
    p \in {"precheck", "pre_release", "fetch", "fail_abort", "fail_fetch",
           "fail_invalid", "fail_admit", "fail_persist", "increment",
           "admit_check", "persist", "compensate", "mark_ok", "exc_release"}
app_id(i) == remaining_games[i]

\* the task's pc changes to p (its local current_count dies with the return)
Goto(i, p) ==
    /\ pc' = [pc EXCEPT ![i] = p]
    /\ current_count' = IF p \in {"done_T", "done_F", "skip_F"}
                           THEN [current_count EXCEPT ![i] = 0]
                           ELSE current_count

WorkerFrame == UNCHANGED <<apiVars, total_games_found, diskVars, cfgVars, mainVars,
                           saveVars, netVars>>

\* the routine without the flag test of lines 537-538
W_Start_NoFlagTest(i) ==
    /\ pc[i] = "pending"
    /\ \A j \in Tasks : j < i => pc[j] # "pending"
    /\ Cardinality({j \in Tasks : Running(j)}) < NThreads
    /\ Goto(i, "reserve")
    /\ UNCHANGED <<cmVars, counterVars, flagVars>>
    /\ WorkerFrame

\* a pool thread takes the oldest queued task; lines 537-538
W_Start(i) ==
    /\ pc[i] = "pending"
    /\ \A j \in Tasks : j < i => pc[j] # "pending"
    /\ Cardinality({j \in Tasks : Running(j)}) < NThreads
    /\ Goto(i, IF stop_processing \/ goal_reached THEN "skip_F" ELSE "reserve")
    /\ UNCHANGED <<cmVars, counterVars, flagVars>>
    /\ WorkerFrame

\* lines 545-547
W_Reserve(i) ==
    /\ pc[i] = "reserve"
    /\ \E ret \in BOOLEAN :
          /\ reserve_appid(app_id(i), ret)
          /\ Goto(i, IF ret THEN "precheck" ELSE "skip_F")
    /\ UNCHANGED <<counterVars, flagVars>>
    /\ WorkerFrame

\* line 550
W_PreCheck(i) ==
    /\ pc[i] = "precheck"
    /\ Goto(i, IF reached_limit THEN "pre_release" ELSE "fetch")
    /\ UNCHANGED <<cmVars, counterVars, flagVars>>
    /\ WorkerFrame

\* the pre-check exit marking the id failed instead of releasing it
W_PreRelease_MarksFailed(i) ==
    /\ pc[i] = "pre_release"
    /\ mark_processed(app_id(i), FALSE)
    /\ Goto(i, "pre_isset")
    /\ UNCHANGED <<counterVars, flagVars>>
    /\ WorkerFrame

\* line 551
W_PreRelease(i) ==
    /\ pc[i] = "pre_release"
    /\ release_reservation(app_id(i))
    /\ Goto(i, "pre_isset")
    /\ UNCHANGED <<counterVars, flagVars>>
    /\ WorkerFrame

\* the test "if not goal_reached.is_set()" of lines 552, 576 and 610
W_GoalIsSet(i) ==
    /\ pc[i] \in {"pre_isset", "adm_isset", "fin_isset"}
    /\ Goto(i, CASE pc[i] = "pre_isset" -> IF goal_reached THEN "done_F" ELSE "pre_set"
                 [] pc[i] = "adm_isset" -> IF goal_reached THEN "done_F" ELSE "adm_set"
                 [] pc[i] = "fin_isset" -> IF goal_reached THEN "done_T" ELSE "fin_set")
    /\ UNCHANGED <<cmVars, counterVars, flagVars>>
    /\ WorkerFrame

\* goal_reached.set() and the log line of lines 553-555, 577-579, 611-614
W_GoalSet(i) ==
    /\ pc[i] \in {"pre_set", "adm_set", "fin_set"}
    /\ goal_reached' = TRUE
    /\ goal_logs' = goal_logs + 1
    /\ Goto(i, IF pc[i] = "fin_set" THEN "done_T" ELSE "done_F")
    /\ UNCHANGED <<cmVars, counterVars, stop_processing>>
    /\ WorkerFrame

\* lines 559-568: get_app_details, the goal test and _is_valid_game.  A set
\* flag makes the fetch return nothing (lines 436, 442) or fails the test
\* of line 561; otherwise the environment decides the outcome.
W_Fetch(i) ==
    /\ pc[i] = "fetch"
    /\ IF stop_processing \/ goal_reached
          THEN Goto(i, "fail_abort")
          ELSE \/ Goto(i, "increment")
               \/ "fetch" \in inject /\ Goto(i, "fail_fetch")
               \/ "invalid" \in inject /\ Goto(i, "fail_invalid")
               \/ "exception" \in inject /\ Goto(i, "exc_release")
    /\ UNCHANGED <<cmVars, counterVars, flagVars>>
    /\ WorkerFrame

\* the soft-failure exit releasing the id instead of marking it failed
W_MarkFailed_Releases(i) ==
    /\ pc[i] \in {"fail_abort", "fail_fetch", "fail_invalid", "fail_admit",
                  "fail_persist"}
    /\ release_reservation(app_id(i))
    /\ Goto(i, IF pc[i] = "fail_admit" THEN "adm_isset" ELSE "done_F")
    /\ UNCHANGED <<counterVars, flagVars>>
    /\ WorkerFrame

\* mark_processed(appid, success=False) of lines 562, 567, 575 and 589
W_MarkFailed(i) ==
    /\ pc[i] \in {"fail_abort", "fail_fetch", "fail_invalid", "fail_admit",
                  "fail_persist"}
    /\ mark_processed(app_id(i), FALSE)
    /\ Goto(i, IF pc[i] = "fail_admit" THEN "adm_isset" ELSE "done_F")
    /\ UNCHANGED <<counterVars, flagVars>>
    /\ WorkerFrame

\* line 571
W_Increment(i) ==
    /\ pc[i] = "increment"
    /\ \E ok \in BOOLEAN, cur \in 0..(MaxTarget + 2) :
          /\ increment(ok, cur)
          /\ pc' = [pc EXCEPT ![i] = IF ok THEN "admit_check" ELSE "fail_admit"]
          /\ current_count' = [current_count EXCEPT ![i] = IF ok THEN cur ELSE 0]
    /\ UNCHANGED <<cmVars, max_value, flagVars>>
    /\ WorkerFrame

\* the admitted task going on to line 607 without appending its record
W_AdmitCheck_SkipsAppend(i) ==
    /\ pc[i] = "admit_check"
    /\ Goto(i, IF goal_reached THEN "fail_admit" ELSE "mark_ok")
    /\ UNCHANGED <<cmVars, counterVars, flagVars>>
    /\ WorkerFrame

\* line 573, after an accepted increment
W_AdmitCheck(i) ==
    /\ pc[i] = "admit_check"
    /\ Goto(i, IF goal_reached THEN "fail_admit" ELSE "persist")
    /\ UNCHANGED <<cmVars, counterVars, flagVars>>
    /\ WorkerFrame

\* lines 581-604: safe_save_jsonl appends the record or reports failure;
\* the reviews that follow are best effort and touch none of this state.
\* An unexpected exception may be raised before the record is appended or
\* while the reviews are fetched and decorated.
W_Persist(i) ==
    /\ pc[i] = "persist"
    /\ \/ /\ details_file' = [details_file EXCEPT ![app_id(i)] = @ + 1]
          /\ \/ Goto(i, "mark_ok")
             \/ "exception" \in inject /\ Goto(i, "exc_release")
       \/ /\ "persist" \in inject
          /\ Goto(i, "compensate")
          /\ UNCHANGED details_file
       \/ /\ "exception" \in inject
          /\ Goto(i, "exc_release")
          /\ UNCHANGED details_file
    /\ UNCHANGED <<cmVars, counterVars, flagVars, apiVars, total_games_found,
                   progress_file, backup_file, cfgVars, mainVars, saveVars, netVars>>

\* line 588
W_Compensate(i) ==
    /\ pc[i] = "compensate"
    /\ decrement
    /\ Goto(i, "fail_persist")
    /\ UNCHANGED <<cmVars, max_value, flagVars>>
    /\ WorkerFrame

\* line 607
W_MarkOk(i) ==
    /\ pc[i] = "mark_ok"
    /\ mark_processed(app_id(i), TRUE)
    /\ Goto(i, "final_check")
    /\ UNCHANGED <<counterVars, flagVars>>
    /\ WorkerFrame

\* line 610, the reached_limit() operand
W_FinalCheck(i) ==
    /\ pc[i] = "final_check"
    /\ Goto(i, IF reached_limit THEN "fin_isset" ELSE "done_T")
    /\ UNCHANGED <<cmVars, counterVars, flagVars>>
    /\ WorkerFrame

\* the except handler without release_reservation
W_ExcRelease_NoRelease(i) ==
    /\ pc[i] = "exc_release"
    /\ Goto(i, "exc_decrement")
    /\ UNCHANGED <<cmVars, counterVars, flagVars>>
    /\ WorkerFrame

\* line 620, in the except handler
W_ExcRelease(i) ==
    /\ pc[i] = "exc_release"
    /\ release_reservation(app_id(i))
    /\ Goto(i, "exc_decrement")
    /\ UNCHANGED <<counterVars, flagVars>>
    /\ WorkerFrame

\* line 622, in the except handler
W_ExcDecrement(i) ==
    /\ pc[i] = "exc_decrement"
    /\ decrement
    /\ Goto(i, "done_F")
    /\ UNCHANGED <<cmVars, max_value, flagVars>>
    /\ WorkerFrame

(* --------------------------- main, parallel mode ----------------------- *)

Futures == (batch_start + 1)..(next_submit - 1)

\* f.cancel() on every future of the batch that has not started
CancelPending ==
    pc' = [i \in Tasks |-> IF i \in Futures /\ pc[i] = "pending"
                              THEN "cancelled" ELSE pc[i]]

MainFrame == UNCHANGED <<apiVars, cfgVars, run, saveVars, netVars>>

\* line 723
M_Load ==
    /\ mpc = "load"
    /\ LET st == load_state(progress_file, backup_file) IN
          /\ processed_appids' = st.processed_appids
          /\ reserved_appids' = st.reserved_appids
          /\ failed_appids' = st.failed_appids
          /\ total_games_found' = st.total_games_found
    /\ mpc' = "startup"
    /\ UNCHANGED <<counterVars, flagVars, diskVars, remaining_games, batch_start,
                   next_submit, yielded, checkpoint_counter, taskVars>>
    /\ MainFrame

\* lines 732-765
M_Startup ==
    /\ mpc = "startup"
    /\ LET existing_details == get_existing_appids(details_file)
           games_already_found == Cardinality(existing_details)
           remaining == get_remaining_games(all_games,
                           processed_appids \cup existing_details
                              \cup reserved_appids)
       IN /\ processed_appids' = processed_appids \cup existing_details
          /\ total_games_found' = games_already_found
          /\ IF remaining = <<>> \/ max_games - games_already_found <= 0
                THEN /\ mpc' = "exit"
                     /\ UNCHANGED <<remaining_games, counterVars>>
                ELSE /\ mpc' = IF parallel THEN "batch" ELSE "seq_loop"
                     /\ remaining_games' \in Shuffles(remaining)
                     /\ value' = games_already_found
                     /\ max_value' = max_games
          /\ pc' = [i \in 1..Len(remaining_games') |-> "unsub"]
          /\ current_count' = [i \in 1..Len(remaining_games') |-> 0]
    /\ UNCHANGED <<reserved_appids, failed_appids, flagVars, diskVars, batch_start,
                   next_submit, yielded, checkpoint_counter>>
    /\ MainFrame

\* lines 801-811
M_Batch ==
    /\ mpc = "batch"
    /\ IF batch_start >= Len(remaining_games) \/ stop_processing \/ goal_reached
          THEN mpc' = "shutdown" /\ UNCHANGED <<next_submit, yielded>>
          ELSE /\ mpc' = "submit"
               /\ next_submit' = batch_start + 1
               /\ yielded' = {}
    /\ UNCHANGED <<cmVars, total_games_found, counterVars, flagVars, diskVars,
                   remaining_games, batch_start, checkpoint_counter, taskVars>>
    /\ MainFrame

\* lines 815-834
M_Submit ==
    /\ mpc = "submit"
    /\ LET batch_end == IF batch_start + batch_size < Len(remaining_games)
                           THEN batch_start + batch_size
                           ELSE Len(remaining_games)
       IN IF next_submit > batch_end \/ reached_limit \/ goal_reached
             THEN /\ mpc' = IF Futures = {} THEN "shutdown" ELSE "consume"
                  /\ UNCHANGED <<next_submit, pc>>
             ELSE /\ pc' = [pc EXCEPT ![next_submit] = "pending"]
                  /\ next_submit' = next_submit + 1
                  /\ mpc' = mpc
    /\ UNCHANGED <<cmVars, total_games_found, counterVars, flagVars, diskVars,
                   remaining_games, batch_start, yielded, checkpoint_counter,
                   current_count>>
    /\ MainFrame

\* lines 838-851: as_completed hands over a finished future
M_Consume ==
    /\ mpc = "consume"
    /\ IF yielded = Futures
          THEN mpc' = "after_batch" /\ UNCHANGED <<yielded, pc>>
          ELSE \E f \in Futures \ yielded :
                  /\ Finished(f)
                  /\ yielded' = yielded \cup {f}
                  /\ IF stop_processing \/ goal_reached
                        THEN CancelPending /\ mpc' = "after_batch"
                        ELSE /\ mpc' = IF pc[f] = "done_T" THEN "check_limit"
                                                          ELSE "checkpoint"
                             /\ UNCHANGED pc
    /\ UNCHANGED <<cmVars, total_games_found, counterVars, flagVars, diskVars,
                   remaining_games, batch_start, next_submit, checkpoint_counter,
                   current_count>>
    /\ MainFrame

\* the goal test of line 856 without the cancel loop of lines 861-863
M_CheckLimit_NoCancel ==
    /\ mpc = "check_limit"
    /\ IF reached_limit
          THEN goal_reached' = TRUE /\ mpc' = "after_batch"
          ELSE mpc' = "checkpoint" /\ UNCHANGED goal_reached
    /\ UNCHANGED <<cmVars, total_games_found, counterVars, stop_processing,
                   goal_logs, diskVars, remaining_games, batch_start, next_submit,
                   yielded, checkpoint_counter, current_count, pc>>
    /\ MainFrame

\* lines 856-864
M_CheckLimit ==
    /\ mpc = "check_limit"
    /\ IF reached_limit
          THEN goal_reached' = TRUE /\ CancelPending /\ mpc' = "after_batch"
          ELSE mpc' = "checkpoint" /\ UNCHANGED <<goal_reached, pc>>
    /\ UNCHANGED <<cmVars, total_games_found, counterVars, stop_processing,
                   goal_logs, diskVars, remaining_games, batch_start, next_submit,
                   yielded, checkpoint_counter, current_count>>
    /\ MainFrame

\* lines 869-876 with the interval test one item late
M_Checkpoint_Late ==
    /\ mpc = "checkpoint"
    /\ IF checkpoint_counter + 1 > checkpoint_interval
          THEN save_state /\ checkpoint_counter' = 0
          ELSE /\ checkpoint_counter' = checkpoint_counter + 1
               /\ UNCHANGED <<progress_file, backup_file>>
    /\ mpc' = "consume"
    /\ UNCHANGED <<cmVars, total_games_found, counterVars, flagVars, details_file,
                   remaining_games, batch_start, next_submit, yielded, taskVars>>
    /\ MainFrame

\* lines 869-876
M_Checkpoint ==
    /\ mpc = "checkpoint"
    /\ IF checkpoint_counter + 1 >= checkpoint_interval
          THEN save_state /\ checkpoint_counter' = 0
          ELSE /\ checkpoint_counter' = checkpoint_counter + 1
               /\ UNCHANGED <<progress_file, backup_file>>
    /\ mpc' = "consume"
    /\ UNCHANGED <<cmVars, total_games_found, counterVars, flagVars, details_file,
                   remaining_games, batch_start, next_submit, yielded, taskVars>>
    /\ MainFrame

\* lines 881-886
M_AfterBatch ==
    /\ mpc = "after_batch"
    /\ IF reached_limit \/ goal_reached
          THEN mpc' = "shutdown" /\ UNCHANGED batch_start
          ELSE mpc' = "batch" /\ batch_start' = batch_start + batch_size
    /\ UNCHANGED <<cmVars, total_games_found, counterVars, flagVars, diskVars,
                   remaining_games, next_submit, yielded, checkpoint_counter,
                   taskVars>>
    /\ MainFrame

\* lines 772-781, sequential mode: the loop tests the flags and the limit
\* and calls processar_um_jogo for the next entry in the main thread
M_SeqLoop ==
    /\ mpc = "seq_loop"
    /\ IF \/ next_submit > Len(remaining_games)
          \/ stop_processing \/ goal_reached \/ reached_limit
          THEN mpc' = "save1" /\ UNCHANGED pc
          ELSE /\ mpc' = "seq_call"
               /\ pc' = [pc EXCEPT ![next_submit] = "pending"]
    /\ UNCHANGED <<cmVars, total_games_found, counterVars, flagVars, diskVars,
                   remaining_games, batch_start, next_submit, yielded,
                   checkpoint_counter, current_count>>
    /\ MainFrame

\* lines 781-792, sequential mode: the call has returned; the item is
\* counted and the periodic checkpoint is saved when the interval is full
M_SeqReturn ==
    /\ mpc = "seq_call"
    /\ Returned(next_submit)
    /\ IF checkpoint_counter + 1 >= checkpoint_interval
          THEN save_state /\ checkpoint_counter' = 0
          ELSE /\ checkpoint_counter' = checkpoint_counter + 1
               /\ UNCHANGED <<progress_file, backup_file>>
    /\ next_submit' = next_submit + 1
    /\ mpc' = "seq_loop"
    /\ UNCHANGED <<cmVars, total_games_found, counterVars, flagVars, details_file,
                   remaining_games, batch_start, yielded, taskVars>>
    /\ MainFrame

\* line 798: leaving the with block waits for every submitted task
M_Shutdown ==
    /\ mpc = "shutdown"
    /\ \A i \in Tasks : pc[i] = "unsub" \/ Finished(i)
    /\ mpc' = "save1"
    /\ UNCHANGED <<cmVars, total_games_found, counterVars, flagVars, diskVars,
                   remaining_games, batch_start, next_submit, yielded,
                   checkpoint_counter, taskVars>>
    /\ MainFrame

\* lines 889-894
M_Save1 ==
    /\ mpc = "save1"
    /\ save_state
    /\ mpc' = "finally"
    /\ UNCHANGED <<cmVars, total_games_found, counterVars, flagVars, details_file,
                   remaining_games, batch_start, next_submit, yielded,
                   checkpoint_counter, taskVars>>
    /\ MainFrame

\* lines 906-909
M_Finally ==
    /\ mpc = "finally"
    /\ stop_processing' = TRUE
    /\ goal_reached' = TRUE
    /\ mpc' = "save2"
    /\ UNCHANGED <<cmVars, total_games_found, counterVars, goal_logs, diskVars,
                   remaining_games, batch_start, next_submit, yielded,
                   checkpoint_counter, taskVars>>
    /\ MainFrame

\* lines 915-918
M_Save2 ==
    /\ mpc = "save2"
    /\ save_state
    /\ mpc' = "exit"
    /\ UNCHANGED <<cmVars, total_games_found, counterVars, flagVars, details_file,
                   remaining_games, batch_start, next_submit, yielded,
                   checkpoint_counter, taskVars>>
    /\ MainFrame

\* signal_handler, lines 50-53
Signal ==
    /\ mpc \notin {"load", "exit"}
    /\ ~stop_processing
    /\ stop_processing' = TRUE
    /\ goal_reached' = TRUE
    /\ UNCHANGED <<cmVars, total_games_found, counterVars, goal_logs, diskVars,
                   mainVars, taskVars, apiVars, cfgVars, saveVars, netVars>>

\* the state of a process that has not started main: lines 23-33, 138-150
MemoryAtStart ==
    /\ processed_appids = {}
    /\ reserved_appids = {}
    /\ failed_appids = {}
    /\ total_games_found = 0
    /\ value = 0
    /\ max_value = 0
    /\ stop_processing = FALSE
    /\ goal_reached = FALSE
    /\ goal_logs = 0
    /\ mpc = "load"
    /\ remaining_games = <<>>
    /\ batch_start = 0
    /\ next_submit = 1
    /\ yielded = {}
    /\ checkpoint_counter = 0
    /\ pc = <<>>
    /\ current_count = <<>>
    /\ save_pc = "idle"
    /\ save_local = EmptyState
    /\ load_before = EmptyState
    /\ NetIdle

\* the process ends (it returned, or it was killed) and main is run again
\* on the files it left
Restart ==
    /\ run < MaxRuns
    /\ mpc # "load"
    /\ run' = run + 1
    /\ processed_appids' = {}
    /\ reserved_appids' = {}
    /\ failed_appids' = {}
    /\ total_games_found' = 0
    /\ value' = 0
    /\ max_value' = 0
    /\ stop_processing' = FALSE
    /\ goal_reached' = FALSE
    /\ goal_logs' = 0
    /\ mpc' = "load"
    /\ remaining_games' = <<>>
    /\ batch_start' = 0
    /\ next_submit' = 1
    /\ yielded' = {}
    /\ checkpoint_counter' = 0
    /\ pc' = <<>>
    /\ current_count' = <<>>
    /\ UNCHANGED <<diskVars, cfgVars, apiVars, saveVars, netVars>>

\* nothing of a run exists: the API-level specifications
RunNotStarted ==
    /\ total_games_found = 0
    /\ stop_processing = FALSE
    /\ goal_reached = FALSE
    /\ goal_logs = 0
    /\ progress_file = MissingFile
    /\ backup_file = MissingFile
    /\ details_file = [a \in AppIds |-> 0]
    /\ all_games = <<>>
    /\ max_games = 0
    /\ batch_size = 0
    /\ checkpoint_interval = 0
    /\ parallel = TRUE
    /\ inject = {}
    /\ run = 0
    /\ mpc = "none"
    /\ remaining_games = <<>>
    /\ batch_start = 0
    /\ next_submit = 1
    /\ yielded = {}
    /\ checkpoint_counter = 0
    /\ pc = <<>>
    /\ current_count = <<>>
    /\ temp_file = MissingFile
    /\ save_pc = "idle"
    /\ save_local = EmptyState
    /\ load_before = EmptyState

(* ------------------------------ a run of main -------------------------- *)

\* catalogs up to renaming of ids: the first entry is 1 and every further
\* entry repeats an id or introduces the next one (the list is shuffled
\* before use, so its order does not matter)
Catalogs(n) ==
    {c \in [1..n -> AppIds] :
        /\ c[1] = 1
        /\ \A i \in 1..(n - 1) : c[i + 1] \in {c[i], c[i] + 1}}

AllInjections == {"fetch", "invalid", "persist", "exception", "shuffle"}

\* the files before the first run
NoFiles ==
    /\ progress_file = MissingFile
    /\ backup_file = MissingFile
    /\ temp_file = MissingFile
    /\ details_file = [a \in AppIds |-> 0]

Init ==
    /\ MemoryAtStart
    /\ NoFiles
    /\ all_games \in Catalogs(MaxCatalog)
    /\ max_games \in 1..MaxTarget
    /\ batch_size = BatchSize
    /\ checkpoint_interval = CheckpointInterval
    /\ parallel = TRUE
    /\ inject = AllInjections
    /\ run = 1
    /\ lastCall = [t \in Threads |-> NoCall]
    /\ grants = [i \in AppIds |-> 0]
    /\ NoLocks

Worker(i) ==
    \/ W_Start(i) \/ W_Reserve(i) \/ W_PreCheck(i) \/ W_PreRelease(i)
    \/ W_GoalIsSet(i) \/ W_GoalSet(i) \/ W_Fetch(i) \/ W_MarkFailed(i)
    \/ W_Increment(i) \/ W_AdmitCheck(i) \/ W_Persist(i) \/ W_Compensate(i)
    \/ W_MarkOk(i) \/ W_FinalCheck(i) \/ W_ExcRelease(i)
    \/ W_ExcDecrement(i)

Main ==
    \/ M_Load \/ M_Startup \/ M_Batch \/ M_Submit \/ M_Consume \/ M_CheckLimit
    \/ M_Checkpoint \/ M_AfterBatch \/ M_Shutdown \/ M_Save1 \/ M_Finally
    \/ M_Save2

Next == (\E i \in Tasks : Worker(i)) \/ Main

Spec == Init /\ [][Next]_vars

\* one run at the largest target over the catalogue that holds one id twice
\* and every other id once
InitWorkers ==
    /\ MemoryAtStart
    /\ NoFiles
    /\ all_games = [i \in 1..MaxCatalog |-> IF i = 1 THEN 1 ELSE i - 1]
    /\ max_games = MaxTarget
    /\ batch_size = BatchSize
    /\ checkpoint_interval = CheckpointInterval
    /\ parallel = TRUE
    /\ inject = AllInjections
    /\ run = 1
    /\ lastCall = [t \in Threads |-> NoCall]
    /\ grants = [i \in AppIds |-> 0]
    /\ NoLocks

SpecWorkers == InitWorkers /\ [][Next]_vars

\* the same run in either mode, with checkpoints every second item
InitModes ==
    /\ MemoryAtStart
    /\ NoFiles
    /\ all_games = [i \in 1..MaxCatalog |-> IF i = 1 THEN 1 ELSE i - 1]
    /\ max_games = MaxTarget
    /\ batch_size = BatchSize
    /\ checkpoint_interval = CheckpointInterval + 1
    /\ parallel \in BOOLEAN
    /\ inject = AllInjections
    /\ run = 1
    /\ lastCall = [t \in Threads |-> NoCall]
    /\ grants = [i \in AppIds |-> 0]
    /\ NoLocks

MainSequential == M_SeqLoop \/ M_SeqReturn

NextModes == Next \/ MainSequential

SpecModes == InitModes /\ [][NextModes]_vars

\* runs of main one after the other on the same files, a run ending by
\* returning or by the process being killed
InitRestart ==
    /\ MemoryAtStart
    /\ NoFiles
    /\ all_games \in Catalogs(MaxCatalog - 1)
    /\ max_games \in 1..MaxTarget
    /\ batch_size = BatchSize
    /\ checkpoint_interval = CheckpointInterval
    /\ parallel = TRUE
    /\ inject = AllInjections
    /\ run = 1
    /\ lastCall = [t \in Threads |-> NoCall]
    /\ grants = [i \in AppIds |-> 0]
    /\ NoLocks

NextRestart == Next \/ Restart

SpecRestart == InitRestart /\ [][NextRestart]_vars

\* the scenario "target 3, 5 valid items": no failure is injected, no
\* signal arrives, the whole list fits in one batch (args.batch_size is at
\* least 50, args.checkpoint_interval at least 5: lines 704-705)
InitScenario ==
    /\ MemoryAtStart
    /\ progress_file = MissingFile
    /\ backup_file = MissingFile
    /\ temp_file = MissingFile
    /\ details_file = [a \in 1..5 |-> 0]
    /\ all_games = <<1, 2, 3, 4, 5>>
    /\ max_games = 3
    /\ batch_size = 50
    /\ checkpoint_interval = 5
    /\ parallel = TRUE
    /\ inject = {}
    /\ run = 1
    /\ lastCall = [t \in Threads |-> NoCall]
    /\ grants = [i \in AppIds |-> 0]
    /\ NoLocks

\* the worker steps the scenario can take
WorkerScenario(i) ==
    \/ W_Start(i) \/ W_Reserve(i) \/ W_PreCheck(i) \/ W_PreRelease(i)
    \/ W_GoalIsSet(i) \/ W_GoalSet(i) \/ W_Fetch(i) \/ W_MarkFailed(i)
    \/ W_Increment(i) \/ W_AdmitCheck(i) \/ W_Persist(i)
    \/ W_MarkOk(i) \/ W_FinalCheck(i)

NextScenario == (\E i \in Tasks : WorkerScenario(i)) \/ Main

SpecScenario == InitScenario /\ [][NextScenario]_vars

\* one run over a catalogue of distinct ids (their order does not matter:
\* the generator is pinned) with a batch larger than the target, so that
\* the counter can saturate while tasks of the batch are still queued; the
\* failure the environment injects is that of the fetch
InitWideBatch ==
    /\ MemoryAtStart
    /\ NoFiles
    /\ all_games = [i \in 1..MaxCatalog |-> i]
    /\ max_games = MaxTarget
    /\ batch_size = BatchSize + 1
    /\ checkpoint_interval = CheckpointInterval
    /\ parallel = TRUE
    /\ inject = {"fetch"}
    /\ run = 1
    /\ lastCall = [t \in Threads |-> NoCall]
    /\ grants = [i \in AppIds |-> 0]
    /\ NoLocks

SpecWideBatch == InitWideBatch /\ [][NextScenario]_vars

\* a run in which only the appending of a detail record can fail
InitPersist ==
    /\ MemoryAtStart
    /\ NoFiles
    /\ all_games \in Catalogs(MaxCatalog)
    /\ max_games \in 1..MaxTarget
    /\ batch_size = BatchSize
    /\ checkpoint_interval = CheckpointInterval
    /\ parallel = TRUE
    /\ inject = {"persist", "shuffle"}
    /\ run = 1
    /\ lastCall = [t \in Threads |-> NoCall]
    /\ grants = [i \in AppIds |-> 0]
    /\ NoLocks

NextPersist == (\E i \in Tasks : WorkerScenario(i) \/ W_Compensate(i)) \/ Main

SpecPersist == InitPersist /\ [][NextPersist]_vars

(* ---------------- CursorManager driven through its API ----------------- *)

\* the calls are serialised by self.lock (lines 237, 251, 266), so the caller
\* does not matter: every thread's record is the last call made
InitCM ==
    /\ processed_appids = {}
    /\ reserved_appids = {}
    /\ failed_appids = {}
    /\ value = 0
    /\ max_value = 0
    /\ lastCall = [t \in Threads |-> NoCall]
    /\ grants = [i \in AppIds |-> 0]
    /\ NoLocks
    /\ RunNotStarted
    /\ NetIdle

CallReserve ==
    \E appid \in AppIds, ret \in BOOLEAN :
        /\ reserve_appid(appid, ret)
        /\ lastCall' = [t \in Threads |-> [op |-> "reserve", id |-> appid, ret |-> ret, cur |-> 0]]
        /\ grants' = IF ret THEN [grants EXCEPT ![appid] = @ + 1] ELSE grants
        /\ UNCHANGED <<counterVars, runVars, netVars, lockVars>>

CallRelease ==
    \E appid \in AppIds :
        /\ release_reservation(appid)
        /\ lastCall' = [t \in Threads |-> [op |-> "release", id |-> appid, ret |-> FALSE, cur |-> 0]]
        /\ grants' = [grants EXCEPT ![appid] = 0]
        /\ UNCHANGED <<counterVars, runVars, netVars, lockVars>>

CallMark ==
    \E appid \in AppIds, success \in BOOLEAN :
        /\ mark_processed(appid, success)
        /\ lastCall' = [t \in Threads |-> [op |-> "mark", id |-> appid, ret |-> success, cur |-> 0]]
        /\ grants' = [grants EXCEPT ![appid] = 0]
        /\ UNCHANGED <<counterVars, runVars, netVars, lockVars>>

NextCM == CallReserve \/ CallRelease \/ CallMark

SpecCM == InitCM /\ [][NextCM]_vars

(* --------------- ThreadSafeCounter driven through its API -------------- *)

InitCounter ==
    /\ processed_appids = {}
    /\ reserved_appids = {}
    /\ failed_appids = {}
    /\ max_value \in 1..MaxValue
    /\ value \in 0..max_value
    /\ lastCall = [t \in Threads |-> NoCall]
    /\ grants = [i \in AppIds |-> 0]
    /\ NoLocks
    /\ RunNotStarted
    /\ NetIdle

CallIncrement ==
    \E t \in Threads, ok \in BOOLEAN, cur \in 0..(MaxValue + 1) :
        /\ increment(ok, cur)
        /\ lastCall' = [lastCall EXCEPT ![t] = [op |-> "increment", id |-> value, ret |-> ok, cur |-> cur]]
        /\ UNCHANGED <<cmVars, max_value, grants, lockVars, runVars, netVars>>

CallDecrement ==
    \E t \in Threads :
    /\ decrement
    /\ lastCall' = [lastCall EXCEPT ![t] =
                       [op |-> "decrement", id |-> value, ret |-> FALSE, cur |-> value']]
    /\ UNCHANGED <<cmVars, max_value, grants, lockVars, runVars, netVars>>

NextCounter == CallIncrement \/ CallDecrement

SpecCounter == InitCounter /\ [][NextCounter]_vars

(* ------------------ save_state taken step by step --------------------- *)

\* a file that open(..., 'w') created or truncated and that does not yet
\* hold a complete JSON text
PartialFile == [exists |-> TRUE, parses |-> FALSE, bad |-> 0, state |-> EmptyState]

SaveFailures == {"rotate", "write", "rename", "restore"}

SaveFrame == UNCHANGED <<cmVars, counterVars, apiVars, total_games_found, flagVars,
                         details_file, cfgVars, mainVars, taskVars, netVars>>

\* the driver marks the ids 1, 2, ... processed one after the other, so that
\* successive checkpoints differ
Progress ==
    /\ save_pc \in {"idle", "crashed", "failed"}
    /\ \E appid \in AppIds :
          /\ appid = Cardinality(processed_appids) + 1
          /\ mark_processed(appid, TRUE)
    /\ save_pc' = "idle"
    /\ UNCHANGED <<counterVars, apiVars, total_games_found, flagVars, diskVars,
                   cfgVars, mainVars, taskVars, temp_file, save_local,
                   load_before, netVars>>

\* lines 195-204: the dictionary is built under main_lock
S_Begin ==
    /\ save_pc \in {"idle", "crashed", "failed"}
    /\ save_pc' = "rotate"
    /\ save_local' = Snapshot
    /\ load_before' = load_state(progress_file, backup_file)
    /\ UNCHANGED <<progress_file, backup_file, temp_file>>
    /\ SaveFrame

\* os.replace without keeping the file it moves
S_Rotate_Removes ==
    /\ save_pc = "rotate"
    /\ save_pc' = "open"
    /\ progress_file' = MissingFile
    /\ UNCHANGED <<backup_file, temp_file, save_local, load_before>>
    /\ SaveFrame

\* lines 207-211: the primary is moved over the backup; a failure of the
\* move is logged and the save goes on
S_Rotate ==
    /\ save_pc = "rotate"
    /\ save_pc' = "open"
    /\ IF progress_file.exists
          THEN \/ /\ backup_file' = progress_file
                  /\ progress_file' = MissingFile
               \/ /\ "rotate" \in inject
                  /\ UNCHANGED <<progress_file, backup_file>>
          ELSE UNCHANGED <<progress_file, backup_file>>
    /\ UNCHANGED <<temp_file, save_local, load_before>>
    /\ SaveFrame

\* lines 214-215: open(temp_file, 'w')
S_Open ==
    /\ save_pc = "open"
    /\ \/ temp_file' = PartialFile /\ save_pc' = "dump"
       \/ "write" \in inject /\ save_pc' = "restore" /\ UNCHANGED temp_file
    /\ UNCHANGED <<progress_file, backup_file, save_local, load_before>>
    /\ SaveFrame

\* line 216: json.dump and the close of the file
S_Dump ==
    /\ save_pc = "dump"
    /\ \/ temp_file' = StateFile(save_local) /\ save_pc' = "rename"
       \/ "write" \in inject /\ save_pc' = "restore" /\ UNCHANGED temp_file
    /\ UNCHANGED <<progress_file, backup_file, save_local, load_before>>
    /\ SaveFrame

\* line 219: os.replace(temp_file, self.progress_file)
S_Rename ==
    /\ save_pc = "rename"
    /\ \/ /\ progress_file' = temp_file
          /\ temp_file' = MissingFile
          /\ save_pc' = "idle"
       \/ /\ "rename" \in inject
          /\ save_pc' = "restore"
          /\ UNCHANGED <<progress_file, temp_file>>
    /\ UNCHANGED <<backup_file, save_local, load_before>>
    /\ SaveFrame

\* lines 225-233: the handler moves the backup over the primary
S_Restore ==
    /\ save_pc = "restore"
    /\ save_pc' = "failed"
    /\ IF backup_file.exists
          THEN \/ /\ progress_file' = backup_file
                  /\ backup_file' = MissingFile
               \/ /\ "restore" \in inject
                  /\ UNCHANGED <<progress_file, backup_file>>
          ELSE UNCHANGED <<progress_file, backup_file>>
    /\ UNCHANGED <<temp_file, save_local, load_before>>
    /\ SaveFrame

\* the process is killed inside save_state (before the rotation, before
\* the temporary file is opened, while it is written, before the rename)
\* and a new process runs load_state (line 723) on the files
Crash ==
    /\ save_pc \in {"rotate", "open", "dump", "rename"}
    /\ save_pc' = "crashed"
    /\ LET st == load_state(progress_file, backup_file) IN
          /\ processed_appids' = st.processed_appids
          /\ reserved_appids' = st.reserved_appids
          /\ failed_appids' = st.failed_appids
          /\ total_games_found' = st.total_games_found
    /\ UNCHANGED <<counterVars, apiVars, flagVars, diskVars, cfgVars, mainVars,
                   taskVars, temp_file, save_local, load_before, netVars>>

\* a process between two calls of main's loop, nothing on disk
InitSave ==
    /\ processed_appids = {}
    /\ reserved_appids = {}
    /\ failed_appids = {}
    /\ value = 0
    /\ max_value = 0
    /\ lastCall = [t \in Threads |-> NoCall]
    /\ grants = [i \in AppIds |-> 0]
    /\ NoLocks
    /\ total_games_found = 0
    /\ stop_processing = FALSE
    /\ goal_reached = FALSE
    /\ goal_logs = 0
    /\ progress_file = MissingFile
    /\ backup_file = MissingFile
    /\ temp_file = MissingFile
    /\ details_file = [a \in AppIds |-> 0]
    /\ all_games = <<>>
    /\ max_games = 0
    /\ batch_size = 0
    /\ checkpoint_interval = 0
    /\ parallel = TRUE
    /\ run = 1
    /\ mpc = "none"
    /\ remaining_games = <<>>
    /\ batch_start = 0
    /\ next_submit = 1
    /\ yielded = {}
    /\ checkpoint_counter = 0
    /\ pc = <<>>
    /\ current_count = <<>>
    /\ save_pc = "idle"
    /\ save_local = EmptyState
    /\ load_before = EmptyState
    /\ NetIdle

\* saves that never fail, in a process that may be killed
InitCrash == InitSave /\ inject = {}

NextCrash ==
    Progress \/ S_Begin \/ S_Rotate \/ S_Open \/ S_Dump \/ S_Rename \/ Crash

SpecCrash == InitCrash /\ [][NextCrash]_vars

\* saves whose steps may fail, in a process that is not killed
InitSaveFail == InitSave /\ inject = SaveFailures

NextSaveFail ==
    Progress \/ S_Begin \/ S_Rotate \/ S_Open \/ S_Dump \/ S_Rename \/ S_Restore

SpecSaveFail == InitSaveFail /\ [][NextSaveFail]_vars

(* ------------------- load_state over arbitrary files ------------------- *)

\* the checkpoint that names id k in every field
TaggedState(k) == [processed_appids |-> {k}, reserved_appids |-> {k},
                   failed_appids |-> {k}, total_games_found |-> k]

\* what may lie at a checkpoint path when the process starts: nothing, text
\* that is not JSON, or JSON whose keys convert up to the first bad one
CheckpointFiles ==
    {MissingFile,
     [exists |-> TRUE, parses |-> FALSE, bad |-> 0, state |-> EmptyState]}
    \cup {[exists |-> TRUE, parses |-> TRUE, bad |-> b, state |-> TaggedState(k)] :
             b \in 0..3, k \in AppIds}

InitLoad ==
    /\ MemoryAtStart
    /\ progress_file \in CheckpointFiles
    /\ backup_file \in CheckpointFiles
    /\ temp_file = MissingFile
    /\ details_file = [a \in AppIds |-> 0]
    /\ all_games = <<>>
    /\ max_games = 0
    /\ batch_size = 0
    /\ checkpoint_interval = 0
    /\ parallel = TRUE
    /\ inject = {}
    /\ run = 1
    /\ lastCall = [t \in Threads |-> NoCall]
    /\ grants = [i \in AppIds |-> 0]
    /\ NoLocks

NextLoad == M_Load

SpecLoad == InitLoad /\ [][NextLoad]_vars

(* -------------- the start of a run on any checkpoint ------------------- *)

\* sets of at most one id
Small == {{}} \cup {{a} : a \in AppIds}

\* A run starts on a checkpoint and a details file left by earlier runs and
\* on a catalog whose entries may lack an appid (0).  The generator is
\* pinned, so remaining_games is what get_remaining_games returned.
InitStartup ==
    /\ MemoryAtStart
    /\ \E p \in Small, r \in Small, f \in SUBSET AppIds :
          progress_file = StateFile([processed_appids |-> p, reserved_appids |-> r,
                                     failed_appids |-> f, total_games_found |-> 0])
    /\ backup_file = MissingFile
    /\ temp_file = MissingFile
    /\ \E d \in Small : details_file = [a \in AppIds |-> IF a \in d THEN 1 ELSE 0]
    /\ all_games \in [1..(MaxCatalog - 1) -> 0..MaxAppId]
    /\ max_games = MaxTarget
    /\ batch_size = BatchSize
    /\ checkpoint_interval = CheckpointInterval
    /\ parallel = TRUE
    /\ inject = {}
    /\ run = 2
    /\ lastCall = [t \in Threads |-> NoCall]
    /\ grants = [i \in AppIds |-> 0]
    /\ NoLocks

NextStartup == M_Load \/ M_Startup

SpecStartup == InitStartup /\ [][NextStartup]_vars

(* ------------------------------ claims --------------------------------- *)

\* C1: between two removals of an id from reserved_appids at most one
\* reserve_appid call for it returns True (grants counts the True returns
\* since the last removal), so a call made while the id is reserved
\* returns False.
C1_ReservationExclusivity ==
    \A i \in AppIds : /\ grants[i] <= 1
                      /\ (i \in reserved_appids) = (grants[i] = 1)

C1_Witness ==
    /\ \A t \in Threads :
          lastCall[t] = [op |-> "reserve", id |-> 1, ret |-> FALSE, cur |-> 0]
    /\ grants[1] = 1
    /\ 1 \in reserved_appids

\* C2 (as claimed): no id is in processed_appids and failed_appids at once.
C2_TerminalDisjoint ==
    processed_appids \cap failed_appids = {}

\* C8: the counter stays within 0..max_value; increment refuses exactly at
\* saturation (value unchanged) and otherwise adds one and returns the new
\* value; decrement is floored at zero.  A call record holds the value
\* before the call (id), the acceptance (ret) and the returned value (cur).
C8_CounterBounds ==
    /\ 0 <= value /\ value <= max_value
    /\ \A t \in Threads :
          /\ lastCall[t].op = "increment" =>
                /\ lastCall[t].ret = (lastCall[t].id < max_value)
                /\ lastCall[t].cur = IF lastCall[t].ret THEN lastCall[t].id + 1
                                                        ELSE lastCall[t].id
          /\ lastCall[t].op = "decrement" =>
                lastCall[t].cur = IF lastCall[t].id = 0 THEN 0
                                                       ELSE lastCall[t].id - 1

C8_Witness ==
    /\ lastCall[1].op = "increment" /\ ~lastCall[1].ret
    /\ lastCall[2] = [op |-> "decrement", id |-> 0, ret |-> FALSE, cur |-> 0]

(* ------------------------- claims about a run -------------------------- *)

\* task i takes the step in which processar_um_jogo returns after it had
\* claimed its id
ReturnsClaimed(i) ==
    /\ i \in DOMAIN pc /\ i \in DOMAIN pc'
    /\ pc[i] \notin {"done_T", "done_F"}
    /\ pc'[i] \in {"done_T", "done_F"}

\* C3 (as claimed): in every state of a run each id is in at most one of
\* reserved_appids, processed_appids and failed_appids.
C3_ThreeSetsDisjoint ==
    /\ processed_appids \cap failed_appids = {}
    /\ processed_appids \cap reserved_appids = {}
    /\ reserved_appids \cap failed_appids = {}

\* C4 (as claimed): the detail records in the output file (those present
\* at the start plus those appended by the run) never exceed the target.
C4_AcceptedWithinTarget ==
    TotalRecords(details_file) <= max_games

\* C5 (as claimed): the scenario ends with exactly 3 ids processed, the
\* goal signalled once, and every other id in none of the three sets.
C5_ScenarioOutcome ==
    mpc = "exit" =>
        /\ Cardinality(processed_appids) = 3
        /\ goal_reached /\ goal_logs <= 1
        /\ reserved_appids = {}
        /\ failed_appids = {}

\* C6 (as claimed): when the routine returns after a claim, its id is not
\* in reserved_appids.
C6_NotReservedAtReturn ==
    [][\A i \in DOMAIN pc :
          ReturnsClaimed(i) => app_id(i) \notin reserved_appids']_vars

\* C6 (amended): when the routine returns after a claim it has given up
\* its own reservation: its id is in reserved_appids only if another
\* running routine, working on a further catalog entry with the same id,
\* has claimed the id since and still holds it.
C6_OwnReservationGone ==
    [][\A i \in DOMAIN pc :
          ReturnsClaimed(i) =>
             (app_id(i) \in reserved_appids' =>
                 \E j \in DOMAIN pc' \ {i} :
                     /\ app_id(j) = app_id(i)
                     /\ HoldsReservation(pc'[j]))]_vars

C6_Witness ==
    \E i, j \in DOMAIN pc :
        /\ i # j /\ app_id(i) = app_id(j)
        /\ pc[i] = "done_F" /\ HoldsReservation(pc[j])
        /\ app_id(i) \in reserved_appids

\* C7 (as claimed): after an injected fetch, validation or persistence
\* failure, admission refusal or unexpected exception the routine returns
\* with its id in processed_appids or failed_appids and not reserved.
C7_TerminalOnEveryFailure ==
    [][\A i \in DOMAIN pc :
          (ReturnsClaimed(i) /\ pc[i] \in {"fail_fetch", "fail_invalid",
                 "fail_persist", "adm_isset", "adm_set", "exc_decrement"})
          => /\ app_id(i) \in processed_appids' \cup failed_appids'
             /\ app_id(i) \notin reserved_appids']_vars

\* C7 (amended): after an injected fetch, validation or persistence failure
\* or an admission refusal the routine returns with its id in
\* failed_appids and not reserved; after an unexpected exception the
\* handler releases the reservation and the id is in none of the three sets.
C7_FailedOrReleased ==
    [][\A i \in DOMAIN pc :
          /\ (ReturnsClaimed(i) /\ pc[i] \in {"fail_fetch", "fail_invalid",
                     "fail_persist", "adm_isset", "adm_set"})
                => /\ app_id(i) \in failed_appids'
                   /\ app_id(i) \notin reserved_appids'
          /\ (i \in DOMAIN pc' /\ pc[i] = "exc_release"
                     /\ pc'[i] = "exc_decrement")
                => app_id(i) \notin (reserved_appids' \cup processed_appids'
                                       \cup failed_appids')]_vars

C7_Witness ==
    \E i, j \in DOMAIN pc :
        /\ pc[i] = "exc_decrement"
        /\ app_id(i) \notin (reserved_appids \cup processed_appids
                                \cup failed_appids)
        /\ pc[j] = "done_F" /\ app_id(j) \in failed_appids

\* C9 (as claimed): the except handler decrements the counter exactly when
\* this routine's own increment had been accepted.
C9_CompensateOnlyIfIncremented ==
    [][\A i \in DOMAIN pc :
          (i \in DOMAIN pc' /\ pc[i] = "exc_decrement" /\ pc'[i] = "done_F")
          => value' = IF current_count[i] > 0 THEN value - 1 ELSE value]_vars

\* C10 (as claimed): when the append fails after this routine's increment
\* returned the target, the compensation leaves the counter at target - 1
\* with goal_reached still unset, and the routine returns with its id in
\* failed_appids.
C10_PersistFailureAtTarget ==
    [][\A i \in DOMAIN pc :
          (i \in DOMAIN pc' /\ current_count[i] = max_games) =>
             /\ (pc[i] = "compensate" /\ pc'[i] = "fail_persist")
                   => (value' = max_games - 1 /\ ~goal_reached')
             /\ (pc[i] = "fail_persist" /\ pc'[i] = "done_F")
                   => app_id(i) \in failed_appids']_vars

\* C11 (as claimed): over a run the workers perform the set of goal_reached
\* together with its log line (lines 553-554, 577-578, 611-612) at most
\* once.
C11_GoalSignalledOnce ==
    goal_logs <= 1

\* C14 (as claimed): what load_state leaves in memory is the primary's state
\* when the primary exists and loads, else the backup's state when the
\* backup exists and loads, else the clean state, and never a mixture.
C14_LoadFallbackOrder ==
    mpc = "startup" =>
        Snapshot = IF Loads(progress_file) THEN progress_file.state
                   ELSE IF Loads(backup_file) THEN backup_file.state
                   ELSE EmptyState

\* C12: a process killed inside save_state leaves files from which the next
\* load_state returns the state a load returned before that save or the
\* state the save was writing (so never a partial state, and the clean
\* state only if one of those two is the clean state).
C12_CrashSafety ==
    save_pc = "crashed" => Snapshot \in {load_before, save_local}

C12_Witness ==
    /\ save_pc = "crashed"
    /\ ~progress_file.exists /\ temp_file = PartialFile
    /\ Snapshot = load_before
    /\ load_before # EmptyState /\ load_before # save_local

\* C13 (as claimed): after a save_state that failed, load_state returns what
\* it returned before the save was attempted.
C13_FailedSaveNoWorse ==
    save_pc = "failed" => load_state(progress_file, backup_file) = load_before

\* task i is the first of this run to get past the flag test with its id:
\* what the sets say about the id comes from the loaded checkpoint and the
\* details file
FirstOfItsId(i) ==
    \A j \in DOMAIN pc \ {i} :
        app_id(j) = app_id(i) => pc[j] \in {"unsub", "pending", "cancelled", "skip_F"}

\* C15 (as claimed): in a run after the first, reserve_appid returns True to
\* the worker of an id that the loaded checkpoint holds in failed_appids
\* (and in neither other set), so that the id can go on to processed_appids.
C15_FailedIdClaimable ==
    [][\A i \in DOMAIN pc :
          ( /\ run > 1 /\ i \in DOMAIN pc'
            /\ pc[i] = "reserve" /\ pc'[i] # "reserve"
            /\ FirstOfItsId(i)
            /\ app_id(i) \in failed_appids
            /\ app_id(i) \notin processed_appids \cup reserved_appids )
          => pc'[i] = "precheck"]_vars

\* the ids a sequence holds
Ids(seq) == {seq[k] : k \in 1..Len(seq)}

\* seq is what is left of games, in order, when only the entries at the
\* positions in keep stay
IsSelection(seq, games, keep) ==
    /\ Len(seq) = Cardinality(keep)
    /\ \A k \in 1..Len(seq) :
          \E q \in keep : /\ Cardinality({x \in keep : x < q}) = k - 1
                          /\ seq[k] = games[q]

C17_ReservedReoffered ==
    [][(mpc = "startup" /\ mpc' = "batch" /\ run > 1) =>
          \A a \in Ids(all_games) :
              (a \in reserved_appids /\ a \notin processed_appids')
                 => a \in Ids(remaining_games')]_vars

\* C18 (as claimed): the checkpoint written by the last forced save of a run
\* that ends without being killed (line 916) holds an empty reserved set.
C18_ReservedEmptyAtShutdown ==
    [][(mpc = "save2" /\ mpc' = "exit") =>
          progress_file'.state.reserved_appids = {}]_vars

\* C19 (as claimed): the details file never holds more than one record of
\* an id.
C19_NoDuplicateRecords ==
    \A a \in DOMAIN details_file : details_file[a] <= 1

\* main has left the consumption loop with goal_reached set, or is past the
\* batch loop
BatchesOver ==
    \/ mpc = "after_batch" /\ goal_reached
    \/ mpc \in {"shutdown", "save1", "finally", "save2", "exit"}

\* C20: when main finds the counter saturated after a True result (line
\* 856) it sets goal_reached, cancels every future of the batch that has
\* not started and leaves the consumption loop; from there on it goes to
\* the end of the with block, starts no batch and submits no task.
C20_BatchEarlyCancel ==
    [][/\ (mpc = "check_limit" /\ mpc' # mpc /\ reached_limit)
             => /\ goal_reached' /\ mpc' = "after_batch"
                /\ \A i \in Futures : pc[i] = "pending" => pc'[i] = "cancelled"
       /\ (mpc = "after_batch" /\ goal_reached /\ mpc' # mpc)
             => mpc' = "shutdown"
       /\ BatchesOver
             => /\ batch_start' = batch_start /\ next_submit' = next_submit
                /\ \A i \in DOMAIN pc :
                      /\ pc[i] \in {"unsub", "cancelled"} => pc'[i] = pc[i]
                      /\ pc[i] # "pending"]_vars

C20_Witness ==
    /\ mpc = "shutdown" /\ goal_reached /\ goal_logs = 0 /\ ~stop_processing
    /\ reached_limit
    /\ \E i, j \in DOMAIN pc : pc[i] = "cancelled" /\ Running(j)

\* C21 (as claimed): on every path on which main returns, the step that
\* ends the run is a forced save_state of the state in memory.
C21_SaveBeforeExit ==
    [][(mpc # "exit" /\ mpc' = "exit") =>
          (mpc = "save2" /\ progress_file' = StateFile(Snapshot))]_vars

\* the step of main that counts one completed item (lines 866-867 in
\* parallel mode, lines 785-786 in sequential mode)
CountStep ==
    \/ mpc = "checkpoint" /\ mpc' = "consume"
    \/ mpc = "seq_call" /\ mpc' = "seq_loop"

\* the entries of remaining_games main has counted (processed_count)
Counted ==
    IF parallel THEN (1..batch_start) \cup yielded ELSE 1..(next_submit - 1)

DisjointSets(st) ==
    /\ st.processed_appids \cap st.reserved_appids = {}
    /\ st.processed_appids \cap st.failed_appids = {}
    /\ st.reserved_appids \cap st.failed_appids = {}

\* C23 (as claimed): every periodic checkpoint written while workers run holds
\* the three sets as they are at the instant of the save, and shows no id in
\* two sets.
C23_SnapshotNotTorn ==
    [][(mpc = "checkpoint" /\ progress_file' # progress_file) =>
          /\ progress_file' = StateFile(Snapshot)
          /\ DisjointSets(progress_file'.state)]_vars

\* no worker stands between its increment (line 571) and the append of its
\* record or the decrement that takes the slot back (lines 583-588, 622)
NoSlotPending ==
    \A i \in DOMAIN pc :
        pc[i] \notin {"admit_check", "persist", "compensate", "exc_release",
                      "exc_decrement"}

\* C24 (as claimed): every checkpoint written during a run while no worker
\* holds an unsettled slot carries the goal counter's value in its
\* total_games_found field.
C24_AcceptedCountCurrent ==
    [][(progress_file' # progress_file /\ NoSlotPending) =>
          progress_file'.state.total_games_found = value]_vars

(* -------- ProxyManager, make_request, get_app_details, get_app_reviews --- *)

MaxProxies == 2
MaxRetries == 3
MaxDraws == 7

\* the literals of lines 441, 480 and 489
DetailAttempts == 4
PageCap == 10
PageSize == 100

Min(a, b) == IF a <= b THEN a ELSE b

\* the test of both events, lines 335, 436, 442, 475, 483
FlagSet == stop_processing \/ goal_reached

\* ProxyManager._init_queue, lines 97-104, applied to the queue q
init_queue(q) == q \o <<None>> \o proxies

\* ProxyManager.get_proxy with the drawn entry put back at the head
get_proxy_Front(p) ==
    LET q == IF proxy_queue = <<>> THEN init_queue(proxy_queue) ELSE proxy_queue
    IN  /\ p = Head(q)
        /\ proxy_queue' = <<p>> \o Tail(q)

\* ProxyManager.get_proxy, lines 106-116, returning p
get_proxy(p) ==
    LET q == IF proxy_queue = <<>> THEN init_queue(proxy_queue) ELSE proxy_queue
    IN  /\ p = Head(q)
        /\ proxy_queue' = Append(Tail(q), p)

\* ProxyManager.mark_failed, lines 118-123
mark_failed(p) ==
    failed_proxies' = IF p # None THEN failed_proxies \cup {p} ELSE failed_proxies

\* ProxyManager.get_proxy_config, lines 125-129 (None, or the endpoint used)
get_proxy_config(p) == IF p # None /\ p \notin failed_proxies THEN p ELSE None

\* what a draw can return
Drawable == {None} \cup {proxies[j] : j \in DOMAIN proxies}

\* the bodies a server can send in answer to each function's request
Resp(kind, entry, success, records, cursor) ==
    [kind |-> kind, entry |-> entry, success |-> success, records |-> records,
     cursor |-> cursor]

Malformed == {Resp("undecodable", FALSE, FALSE, 0, FALSE),
              Resp("not_object", FALSE, FALSE, 0, FALSE)}

DetailBodies ==
    Malformed \cup {Resp("object", FALSE, FALSE, 0, FALSE),
                    Resp("object", TRUE, FALSE, 0, FALSE),
                    Resp("object", TRUE, TRUE, 0, FALSE)}

PageLengths == {0, 1, PageSize + 1}

ReviewBodies ==
    Malformed \cup {Resp("object", FALSE, s, n, c) :
                       s \in BOOLEAN, n \in PageLengths, c \in BOOLEAN}

Bodies ==
    CASE call.fn = "get_app_details" -> DetailBodies
      [] call.fn = "get_app_reviews" -> ReviewBodies
      [] OTHER -> {Resp("object", FALSE, FALSE, 0, FALSE)}

\* the requested review counts tried
Counts == {1, PageSize, PageSize + 1, 3 * PageSize, 11 * PageSize}

\* the call make_request(url, proxies=cfg, retries=retries)
StartRequest(retries, cfg) ==
    request' = [NoRequest EXCEPT !.pc = "top", !.retries = retries,
                                 !.proxies = cfg]

RECURSIVE Total(_)
\* len() of a list given by the lengths of the pages it was extended with
Total(chunks) ==
    IF chunks = <<>> THEN 0 ELSE Head(chunks) + Total(Tail(chunks))

RECURSIVE Take(_, _)
\* the slice [:n] of such a list
Take(chunks, n) ==
    IF chunks = <<>> \/ n <= 0 THEN <<>>
    ELSE IF Head(chunks) >= n THEN <<n>>
    ELSE <<Head(chunks)>> \o Take(Tail(chunks), n - Head(chunks))

NetFrame == UNCHANGED <<cmVars, counterVars, apiVars, runVars>>

\* lines 334-336 without the test of the events
R_Top_NoFlagTest ==
    /\ request.pc = "top"
    /\ IF request.attempt >= request.retries
          THEN /\ request' = [request EXCEPT !.pc = "returned",
                                             !.response = NoResponse]
               /\ UNCHANGED net
          ELSE /\ request' = [request EXCEPT !.pc = "get",
                                 !.entry = request.attempt = 0 /\ FlagSet]
               /\ net' = [net EXCEPT !.checked = ~FlagSet,
                             !.entry = IF call.fn = "make_request"
                                          THEN request.attempt = 0 /\ FlagSet
                                          ELSE @]
    /\ UNCHANGED <<proxies, proxy_queue, failed_proxies, call>>
    /\ NetFrame

\* lines 334-336 and 357: the loop header and the test of the events
R_Top ==
    /\ request.pc = "top"
    /\ IF request.attempt >= request.retries
          THEN /\ request' = [request EXCEPT !.pc = "returned",
                                             !.response = NoResponse]
               /\ UNCHANGED net
          ELSE IF FlagSet
            THEN /\ request' = [request EXCEPT !.pc = "returned",
                                   !.response = NoResponse,
                                   !.entry = request.attempt = 0]
                 /\ net' = [net EXCEPT !.checked = FALSE,
                               !.entry = IF call.fn = "make_request"
                                            THEN request.attempt = 0 ELSE @]
            ELSE /\ request' = [request EXCEPT !.pc = "get"]
                 /\ net' = [net EXCEPT !.checked = TRUE]
    /\ UNCHANGED <<proxies, proxy_queue, failed_proxies, call>>
    /\ NetFrame

\* lines 338-355 with a 429 that does not advance the loop
R_Get_FreeRetry ==
    /\ request.pc = "get"
    /\ \/ \E body \in Bodies :
            request' = [request EXCEPT !.pc = "returned", !.response = body,
                                       !.log = Append(@, "ok")]
       \/ request' = [request EXCEPT !.pc = "top", !.log = Append(@, "429")]
       \/ request' = [request EXCEPT
                        !.pc = IF request.attempt = request.retries - 1
                                  THEN "returned" ELSE "top",
                        !.attempt = IF request.attempt = request.retries - 1
                                       THEN @ ELSE @ + 1,
                        !.response = NoResponse,
                        !.log = Append(@, "error")]
    /\ net' = [net EXCEPT !.http = @ + 1, !.checked = FALSE]
    /\ UNCHANGED <<proxies, proxy_queue, failed_proxies, call>>
    /\ NetFrame

\* lines 338-355: requests.get answers with a response that passes
\* raise_for_status, with status 429, or raises a RequestException
R_Get ==
    /\ request.pc = "get"
    /\ \/ \E body \in Bodies :
            request' = [request EXCEPT !.pc = "returned", !.response = body,
                                       !.log = Append(@, "ok")]
       \/ request' = [request EXCEPT !.pc = "top", !.attempt = @ + 1,
                                     !.log = Append(@, "429")]
       \/ request' = [request EXCEPT
                        !.pc = IF request.attempt = request.retries - 1
                                  THEN "returned" ELSE "top",
                        !.attempt = IF request.attempt = request.retries - 1
                                       THEN @ ELSE @ + 1,
                        !.response = NoResponse,
                        !.log = Append(@, "error")]
    /\ net' = [net EXCEPT !.http = @ + 1, !.checked = FALSE]
    /\ UNCHANGED <<proxies, proxy_queue, failed_proxies, call>>
    /\ NetFrame

\* lines 435-441
D_Entry ==
    /\ call.fn = "get_app_details"
    /\ call.pc = "entry"
    /\ IF FlagSet
          THEN /\ call' = [call EXCEPT !.pc = "done", !.result = "None"]
               /\ net' = [net EXCEPT !.entry = TRUE]
          ELSE /\ call' = [call EXCEPT !.pc = "loop", !.attempt = 0]
               /\ UNCHANGED net
    /\ UNCHANGED <<proxies, proxy_queue, failed_proxies, request>>
    /\ NetFrame

\* lines 441-449 and 471
D_Loop ==
    /\ call.fn = "get_app_details"
    /\ call.pc = "loop"
    /\ IF call.attempt >= DetailAttempts \/ FlagSet
          THEN /\ call' = [call EXCEPT !.pc = "done", !.result = "None"]
               /\ UNCHANGED <<proxy_queue, request, net>>
          ELSE \E p \in Drawable :
                  /\ get_proxy(p)
                  /\ call' = [call EXCEPT !.pc = "wait", !.proxy = p]
                  /\ StartRequest(1, get_proxy_config(p))
                  /\ net' = [net EXCEPT !.draws = @ + 1]
    /\ UNCHANGED <<proxies, failed_proxies>>
    /\ NetFrame

\* lines 451-469 with the proxy marked whenever no payload is returned
D_Response_MarksUnavailable ==
    /\ call.fn = "get_app_details"
    /\ call.pc = "wait"
    /\ request.pc = "returned"
    /\ LET r == request.response IN
          /\ net' = [net EXCEPT !.pages = Append(@, r)]
          /\ CASE r.kind \in {"None", "undecodable"} ->
                    /\ mark_failed(call.proxy)
                    /\ call' = [call EXCEPT !.pc = "loop", !.attempt = @ + 1]
               [] r.kind = "not_object" ->
                    /\ call' = [call EXCEPT !.pc = "done", !.result = "raised"]
                    /\ UNCHANGED failed_proxies
               [] r.kind = "object" ->
                    /\ call' = [call EXCEPT !.pc = "done",
                                   !.result = IF r.entry /\ r.success
                                                 THEN "payload" ELSE "None"]
                    /\ IF r.entry /\ r.success
                          THEN UNCHANGED failed_proxies
                          ELSE mark_failed(call.proxy)
    /\ request' = [request EXCEPT !.pc = "idle"]
    /\ UNCHANGED <<proxies, proxy_queue>>
    /\ NetFrame

\* lines 451-469: data.get on a decoded value without that method raises
\* AttributeError, which the except clause of line 461 does not catch
D_Response ==
    /\ call.fn = "get_app_details"
    /\ call.pc = "wait"
    /\ request.pc = "returned"
    /\ LET r == request.response IN
          /\ net' = [net EXCEPT !.pages = Append(@, r)]
          /\ CASE r.kind \in {"None", "undecodable"} ->
                    /\ mark_failed(call.proxy)
                    /\ call' = [call EXCEPT !.pc = "loop", !.attempt = @ + 1]
               [] r.kind = "not_object" ->
                    /\ call' = [call EXCEPT !.pc = "done", !.result = "raised"]
                    /\ UNCHANGED failed_proxies
               [] r.kind = "object" ->
                    /\ call' = [call EXCEPT !.pc = "done",
                                   !.result = IF r.entry /\ r.success
                                                 THEN "payload" ELSE "None"]
                    /\ UNCHANGED failed_proxies
    /\ request' = [request EXCEPT !.pc = "idle"]
    /\ UNCHANGED <<proxies, proxy_queue>>
    /\ NetFrame

\* lines 475-480
V_Entry ==
    /\ call.fn = "get_app_reviews"
    /\ call.pc = "entry"
    /\ IF FlagSet
          THEN /\ call' = [call EXCEPT !.pc = "done", !.result = "list",
                                       !.returned = <<>>]
               /\ net' = [net EXCEPT !.entry = TRUE]
          ELSE /\ call' = [call EXCEPT
                             !.pc = "loop", !.reviews = <<>>, !.cursor = TRUE,
                             !.page = 0,
                             !.max_pages =
                                Min(PageCap, (call.num_reviews + PageSize - 1)
                                                \div PageSize)]
               /\ UNCHANGED net
    /\ UNCHANGED <<proxies, proxy_queue, failed_proxies, request>>
    /\ NetFrame

\* lines 482-499 and 524 without the test of len(reviews)
V_Loop_NoLengthTest ==
    /\ call.fn = "get_app_reviews"
    /\ call.pc = "loop"
    /\ IF call.page >= call.max_pages \/ FlagSet
          THEN /\ call' = [call EXCEPT
                             !.pc = "done", !.result = "list",
                             !.returned = Take(call.reviews, call.num_reviews)]
               /\ UNCHANGED <<proxy_queue, request, net>>
          ELSE \E p \in Drawable :
                  /\ get_proxy(p)
                  /\ call' = [call EXCEPT !.pc = "wait", !.proxy = p]
                  /\ StartRequest(1, get_proxy_config(p))
                  /\ net' = [net EXCEPT !.draws = @ + 1]
    /\ UNCHANGED <<proxies, failed_proxies>>
    /\ NetFrame

\* lines 482-499 and 524
V_Loop ==
    /\ call.fn = "get_app_reviews"
    /\ call.pc = "loop"
    /\ IF \/ call.page >= call.max_pages
          \/ FlagSet
          \/ Total(call.reviews) >= call.num_reviews
          THEN /\ call' = [call EXCEPT
                             !.pc = "done", !.result = "list",
                             !.returned = Take(call.reviews, call.num_reviews)]
               /\ UNCHANGED <<proxy_queue, request, net>>
          ELSE \E p \in Drawable :
                  /\ get_proxy(p)
                  /\ call' = [call EXCEPT !.pc = "wait", !.proxy = p]
                  /\ StartRequest(1, get_proxy_config(p))
                  /\ net' = [net EXCEPT !.draws = @ + 1]
    /\ UNCHANGED <<proxies, failed_proxies>>
    /\ NetFrame

\* lines 501-524 with a page without records treated as one more page
V_Response_EmptyPageGoesOn ==
    /\ call.fn = "get_app_reviews"
    /\ call.pc = "wait"
    /\ request.pc = "returned"
    /\ LET r == request.response
           leave(list) == [call EXCEPT
                             !.pc = "done", !.result = "list", !.reviews = list,
                             !.returned = Take(list, call.num_reviews)]
       IN /\ net' = [net EXCEPT !.pages = Append(@, r)]
          /\ CASE r.kind = "None" ->
                    /\ mark_failed(call.proxy)
                    /\ call' = leave(call.reviews)
               [] r.kind = "undecodable" ->
                    /\ call' = leave(call.reviews)
                    /\ UNCHANGED failed_proxies
               [] r.kind = "not_object" ->
                    /\ call' = [call EXCEPT !.pc = "done", !.result = "raised"]
                    /\ UNCHANGED failed_proxies
               [] r.kind = "object" ->
                    /\ UNCHANGED failed_proxies
                    /\ IF r.success
                          THEN LET list == IF r.records > 0
                                              THEN Append(call.reviews, r.records)
                                              ELSE call.reviews
                               IN IF r.cursor
                                     THEN call' = [call EXCEPT
                                                     !.pc = "loop",
                                                     !.reviews = list,
                                                     !.cursor = TRUE,
                                                     !.page = @ + 1]
                                     ELSE call' = [leave(list) EXCEPT
                                                     !.cursor = FALSE]
                          ELSE call' = leave(call.reviews)
    /\ request' = [request EXCEPT !.pc = "idle"]
    /\ UNCHANGED <<proxies, proxy_queue>>
    /\ NetFrame

\* lines 501-524: as in get_app_details, only JSONDecodeError is caught
V_Response ==
    /\ call.fn = "get_app_reviews"
    /\ call.pc = "wait"
    /\ request.pc = "returned"
    /\ LET r == request.response
           leave(list) == [call EXCEPT
                             !.pc = "done", !.result = "list", !.reviews = list,
                             !.returned = Take(list, call.num_reviews)]
       IN /\ net' = [net EXCEPT !.pages = Append(@, r)]
          /\ CASE r.kind = "None" ->
                    /\ mark_failed(call.proxy)
                    /\ call' = leave(call.reviews)
               [] r.kind = "undecodable" ->
                    /\ call' = leave(call.reviews)
                    /\ UNCHANGED failed_proxies
               [] r.kind = "not_object" ->
                    /\ call' = [call EXCEPT !.pc = "done", !.result = "raised"]
                    /\ UNCHANGED failed_proxies
               [] r.kind = "object" ->
                    /\ UNCHANGED failed_proxies
                    /\ IF r.success /\ r.records > 0
                          THEN LET list == Append(call.reviews, r.records)
                               IN IF r.cursor
                                     THEN call' = [call EXCEPT
                                                     !.pc = "loop",
                                                     !.reviews = list,
                                                     !.cursor = TRUE,
                                                     !.page = @ + 1]
                                     ELSE call' = [leave(list) EXCEPT
                                                     !.cursor = FALSE]
                          ELSE call' = leave(call.reviews)
    /\ request' = [request EXCEPT !.pc = "idle"]
    /\ UNCHANGED <<proxies, proxy_queue>>
    /\ NetFrame

\* one thread calls get_proxy again and again (lines 106-116)
P_GetProxy ==
    /\ call.fn = "get_proxy"
    /\ net.draws < MaxDraws
    /\ \E p \in Drawable :
          /\ get_proxy(p)
          /\ call' = [call EXCEPT !.proxy = p]
    /\ net' = [net EXCEPT !.draws = @ + 1]
    /\ UNCHANGED <<proxies, failed_proxies, request>>
    /\ NetFrame

\* and may report the endpoint it drew (lines 118-123)
P_MarkFailed ==
    /\ call.fn = "get_proxy"
    /\ net.draws > 0
    /\ call.proxy \notin failed_proxies \cup {None}
    /\ mark_failed(call.proxy)
    /\ UNCHANGED <<proxies, proxy_queue, request, call, net>>
    /\ NetFrame

\* lines 576-577 and 610-611 in another worker: goal_reached.set()
OtherWorkerGoal ==
    /\ ~goal_reached
    /\ goal_reached' = TRUE
    /\ UNCHANGED <<cmVars, total_games_found, counterVars, stop_processing,
                   goal_logs, diskVars, mainVars, taskVars, apiVars, cfgVars,
                   saveVars, netVars>>

\* a ProxyManager built from a proxy file of up to MaxProxies entries (lines
\* 65-104; the file may name a proxy twice, which the fetchers are only run
\* without), both events clear, and one function about to be called
InitNetBase ==
    /\ processed_appids = {}
    /\ reserved_appids = {}
    /\ failed_appids = {}
    /\ value = 0
    /\ max_value = 0
    /\ lastCall = [t \in Threads |-> NoCall]
    /\ grants = [i \in AppIds |-> 0]
    /\ NoLocks
    /\ RunNotStarted
    /\ failed_proxies = {}
    /\ net = NoHistory

InitNet ==
    /\ InitNetBase
    /\ \E k \in 0..MaxProxies : proxies \in [1..k -> 1..MaxProxies]
    /\ proxy_queue = init_queue(<<>>)
    /\ \/ /\ call = [NoFetch EXCEPT !.fn = "get_proxy", !.pc = "idle"]
          /\ request = NoRequest
       \/ /\ proxies = [j \in DOMAIN proxies |-> j]
          /\ call = [NoFetch EXCEPT !.fn = "get_app_details", !.pc = "entry"]
          /\ request = NoRequest
       \/ /\ proxies = [j \in DOMAIN proxies |-> j]
          /\ \E n \in Counts :
               call = [NoFetch EXCEPT !.fn = "get_app_reviews", !.pc = "entry",
                                      !.num_reviews = n]
          /\ request = NoRequest
       \/ /\ proxies = [j \in DOMAIN proxies |-> j]
          /\ call = [NoFetch EXCEPT !.fn = "make_request", !.pc = "wait"]
          /\ \E r \in 1..MaxRetries :
               request = [NoRequest EXCEPT !.pc = "top", !.retries = r]

MakeRequest == R_Top \/ R_Get

NextNet ==
    \/ MakeRequest
    \/ D_Entry \/ D_Loop \/ D_Response
    \/ V_Entry \/ V_Loop \/ V_Response
    \/ P_GetProxy \/ P_MarkFailed
    \/ Signal \/ OtherWorkerGoal

SpecNet == InitNet /\ [][NextNet]_vars

\* make_request called on its own, as get_all_game_list does (line 416);
\* a thread that is inside make_request keeps running
InitFetch ==
    /\ InitNetBase
    /\ proxies = <<>>
    /\ proxy_queue = init_queue(<<>>)
    /\ call = [NoFetch EXCEPT !.fn = "make_request", !.pc = "wait"]
    /\ \E r \in 1..MaxRetries :
         request = [NoRequest EXCEPT !.pc = "top", !.retries = r]

NextFetch == MakeRequest \/ Signal \/ OtherWorkerGoal

SpecFetch == InitFetch /\ [][NextFetch]_vars /\ WF_vars(MakeRequest)

\* C25: every requests.get that starts follows at once on a test that found
\* both events clear, and a make_request, get_app_details or get_app_reviews
\* whose first test finds an event set issues no request.
C25_NoAttemptOnceFlagSeen ==
    /\ [][net.http' # net.http =>
            /\ net.http' = net.http + 1
            /\ request.pc = "get"
            /\ net.checked]_vars
    /\ [](request.entry => request.log = <<>>)
    /\ [](net.entry => net.http = 0)

\* C25: a make_request that had issued a request found an event set at the
\* top of its next iteration and returned None
C25_Witness ==
    /\ call.fn = "make_request"
    /\ request.pc = "returned"
    /\ request.response = NoResponse
    /\ FlagSet
    /\ net.http = 1
    /\ request.attempt = 1
    /\ request.retries > 1

\* C26: make_request calls requests.get at most retries times, a 429 or an
\* exception each using up one iteration; it returns a response exactly when
\* its last call succeeded, no call follows a successful one, and once called
\* it returns.
C26_FetchBounded ==
    /\ [](Len(request.log) <= request.retries)
    /\ [](request.pc = "top" =>
            /\ request.attempt = Len(request.log)
            /\ \A i \in DOMAIN request.log : request.log[i] # "ok")
    /\ [](request.pc = "returned" =>
            /\ \A i \in 1..(Len(request.log) - 1) : request.log[i] # "ok"
            /\ request.response # NoResponse <=>
                  /\ request.log # <<>>
                  /\ request.log[Len(request.log)] = "ok")
    /\ (request.pc = "top" ~> request.pc = "returned")

\* C26: a make_request that met a 429 first returned the response of its last
\* permitted attempt
C26_Witness ==
    /\ request.pc = "returned"
    /\ request.retries > 1
    /\ Len(request.log) = request.retries
    /\ request.log[1] = "429"
    /\ request.log[Len(request.log)] = "ok"
    /\ request.response # NoResponse

\* C27: get_app_details draws one proxy per iteration and issues at most one
\* request per draw, four at most; a decoded object whose entry for the id is
\* missing or has success false ends the call with None and leaves
\* failed_proxies as it is; an attempt with no response or an undecodable
\* body puts the drawn proxy, unless it is None, into failed_proxies; and
\* once the call is over no request follows.
C27_DetailAttempts ==
    /\ [](call.fn = "get_app_details" =>
            /\ net.http <= net.draws
            /\ net.draws <= DetailAttempts
            /\ call.pc = "wait" => net.draws = call.attempt + 1
            /\ call.pc = "loop" => net.draws = call.attempt)
    /\ [][(call.fn = "get_app_details" /\ net.http' # net.http) =>
            net.http = call.attempt]_vars
    /\ [][(call.fn = "get_app_details" /\ call.pc = "wait"
                                        /\ call'.pc # "wait") =>
            LET r == request.response IN
              /\ (r.kind = "object" /\ ~(r.entry /\ r.success)) =>
                    /\ call'.pc = "done"
                    /\ call'.result = "None"
                    /\ failed_proxies' = failed_proxies
              /\ (r.kind \in {"None", "undecodable"} /\ call.proxy # None) =>
                    /\ call.proxy \in failed_proxies'
                    /\ call'.pc = "loop"]_vars
    /\ [][(call.fn = "get_app_details" /\ call.pc = "done") =>
            (net.http' = net.http /\ call' = call)]_vars

\* C27: the first attempt, over the local address, got no response, the
\* second got an undecodable body through the first proxy, and the third a
\* decoded object without the entry
C27_Witness ==
    /\ call.fn = "get_app_details"
    /\ call.pc = "done"
    /\ call.result = "None"
    /\ net.http = 3
    /\ Len(net.pages) = 3
    /\ net.pages[1].kind = "None"
    /\ net.pages[2].kind = "undecodable"
    /\ net.pages[3].kind = "object"
    /\ ~net.pages[3].entry
    /\ proxies # <<>>
    /\ failed_proxies = {proxies[1]}

\* a page after which get_app_reviews goes on: decoded, success, records and
\* a cursor
GoodPage(r) == r.kind = "object" /\ r.success /\ r.records > 0 /\ r.cursor

\* C28: get_app_reviews issues at most min(10, ceil(n / 100)) page requests
\* and returns at most n reviews; a page is requested only when fewer than n
\* reviews are held, every page before it came back decoded with success,
\* records and a cursor, and the test of the events just before found both
\* clear.
C28_PaginationCapped ==
    /\ [](call.fn = "get_app_reviews" =>
            /\ net.http <= Min(PageCap, (call.num_reviews + PageSize - 1)
                                          \div PageSize)
            /\ net.http <= net.draws
            /\ call.result = "list" => Total(call.returned) <= call.num_reviews)
    /\ [][(call.fn = "get_app_reviews" /\ net.http' # net.http) =>
            /\ net.http = call.page
            /\ Total(call.reviews) < call.num_reviews
            /\ \A i \in DOMAIN net.pages : GoodPage(net.pages[i])
            /\ net.checked]_vars
    /\ [][(call.fn = "get_app_reviews" /\ call.pc = "done") =>
            (net.http' = net.http /\ call' = call)]_vars

\* C28: more than ten pages' worth of reviews was asked for, ten good pages
\* came back, and the call returned what they held
C28_Witness ==
    /\ call.fn = "get_app_reviews"
    /\ call.pc = "done"
    /\ call.num_reviews > PageCap * PageSize
    /\ net.http = PageCap
    /\ \A i \in DOMAIN net.pages : GoodPage(net.pages[i])
    /\ call.returned = call.reviews
    /\ Len(call.returned) = PageCap

\* the pages get_app_reviews has received are those of the scenario: the
\* first with records and a cursor, the second with a cursor and no records
TwoPageScenario ==
    /\ call.fn = "get_app_reviews"
    /\ Len(net.pages) >= 2
    /\ GoodPage(net.pages[1])
    /\ net.pages[2].kind = "object"
    /\ net.pages[2].records = 0
    /\ net.pages[2].cursor

\* C29: in that scenario exactly two pages are requested and the call
\* returns the records of the first page, cut to the requested count.
C29_TwoPages ==
    TwoPageScenario =>
        /\ Len(net.pages) = 2
        /\ net.http = 2
        /\ call.pc = "done"
        /\ call.result = "list"
        /\ call.reviews = <<net.pages[1].records>>
        /\ call.returned = Take(<<net.pages[1].records>>, call.num_reviews)

\* C29: the scenario has happened, the second page reporting success
C29_Witness ==
    /\ TwoPageScenario
    /\ net.pages[2].success
    /\ call.returned = <<1>>

\* None followed by the loaded proxies, the order of _init_queue
Ring == <<None>> \o proxies

\* the list s turned left by j places
Rotate(s, j) ==
    [i \in 1..Len(s) |-> s[((i + j - 1) % Len(s)) + 1]]

\* C30: the j-th get_proxy call of a thread that calls one at a time returns
\* entry ((j - 1) mod (k + 1)) + 1 of None, proxy 1, ..., proxy k, and after
\* it the queue holds these k + 1 entries once each, the drawn one last.
C30_RoundRobin ==
    /\ proxy_queue = Rotate(Ring, net.draws % Len(Ring))
    /\ net.draws > 0 =>
          /\ call.proxy = Ring[((net.draws - 1) % Len(Ring)) + 1]
          /\ proxy_queue[Len(proxy_queue)] = call.proxy

\* C30: with every proxy loaded, the first proxy has come round again
C30_Witness ==
    /\ call.fn = "get_proxy"
    /\ Len(proxies) = MaxProxies
    /\ net.draws = Len(Ring) + 2
    /\ call.proxy = proxies[1]

\* the thread goes on drawing after the MaxDraws draws that net counts
P_DrawOn ==
    /\ call.fn = "get_proxy"
    /\ net.draws = MaxDraws
    /\ \E p \in Drawable :
          /\ get_proxy(p)
          /\ call' = [call EXCEPT !.proxy = p]
    /\ UNCHANGED <<proxies, failed_proxies, request, net>>
    /\ NetFrame

\* one thread that draws for ever and reports what it drew when it likes
InitProxy ==
    /\ InitNetBase
    /\ \E k \in 0..MaxProxies : proxies \in [1..k -> 1..MaxProxies]
    /\ proxy_queue = init_queue(<<>>)
    /\ call = [NoFetch EXCEPT !.fn = "get_proxy", !.pc = "idle"]
    /\ request = NoRequest

NextProxy == P_GetProxy \/ P_DrawOn \/ P_MarkFailed

SpecProxy ==
    InitProxy /\ [][NextProxy]_vars /\ WF_vars(P_GetProxy \/ P_DrawOn)

\* C31 (as claimed): mark_failed adds the endpoint to failed_proxies and
\* leaves the queue alone, get_proxy_config returns None exactly for None and
\* for the endpoints in failed_proxies, and an endpoint that was marked
\* failed is later given out by get_proxy_config as a proxy again.
C31_FailedStaysUsable ==
    /\ [][failed_proxies' # failed_proxies =>
            /\ failed_proxies' = failed_proxies \cup {call.proxy}
            /\ proxy_queue' = proxy_queue]_vars
    /\ [](\A e \in Drawable :
            get_proxy_config(e) = None <=> (e = None \/ e \in failed_proxies))
    /\ \A e \in 1..MaxProxies :
          [](e \in failed_proxies => <>(get_proxy_config(e) = e))

\* a run in either mode, on no files or on the details file a killed run
\* left without a checkpoint, in which the signal may arrive; every thread
\* that can take a step eventually does
InitRun ==
    /\ MemoryAtStart
    /\ progress_file = MissingFile
    /\ backup_file = MissingFile
    /\ temp_file = MissingFile
    /\ \E n \in {0, MaxTarget} :
          details_file = [a \in AppIds |-> IF a <= n THEN 1 ELSE 0]
    /\ all_games = [i \in 1..MaxCatalog |-> IF i = 1 THEN 1 ELSE i - 1]
    /\ max_games = MaxTarget
    /\ batch_size = BatchSize
    /\ checkpoint_interval = CheckpointInterval + 1
    /\ parallel \in BOOLEAN
    /\ inject = AllInjections
    /\ run = 1
    /\ lastCall = [t \in Threads |-> NoCall]
    /\ grants = [i \in AppIds |-> 0]
    /\ NoLocks

NextRun == NextModes \/ Signal

SpecRun ==
    /\ InitRun
    /\ [][NextRun]_vars
    /\ WF_vars(Main \/ MainSequential)
    /\ WF_vars(\E i \in Tasks : Worker(i))

\* every run ends, and once the counter is saturated or the signal has come
\* no worker routine stays inside processar_um_jogo
RunEnds ==
    /\ <>(mpc = "exit")
    /\ (reached_limit \/ stop_processing) ~> (\A i \in Tasks : ~Running(i))

\* C32 (as claimed): in both modes every run ends, having written its final
\* checkpoint, and once the counter is saturated or the stop event is set
\* every started worker routine returns.
C32_RunTerminates ==
    /\ RunEnds
    /\ [](mpc = "exit" => progress_file = StateFile(Snapshot))

\* C33 (as claimed): a worker that holds a reservation and finds an event set
\* where its detail fetch should have given a payload leaves the id in none
\* of the three sets.
C33_AbortReleases ==
    [][\A i \in Tasks :
          (pc[i] = "fail_abort" /\ pc'[i] # "fail_abort") =>
              app_id(i) \notin processed_appids' \cup reserved_appids'
                                  \cup failed_appids']_vars

\* C34 (as claimed): whenever the run has started and no task is inside
\* processar_um_jogo, the counter (0 at the start of the run) equals the
\* number of records appended to the details file (empty at the start).
C34_CounterMatchesRecords ==
    (mpc \notin {"load", "startup"} /\ \A i \in Tasks : ~Running(i))
        => value = TotalRecords(details_file)

\* C35: a task that finds reached_limit() true at line 550 goes to
\* release_reservation, whose step leaves its id in none of the three sets
\* and processed_appids and failed_appids as they were; from there to its
\* return the task changes neither the counter nor the details file and
\* passes no fetch, it returns False, and goal_reached is set when it
\* returns.
C35_SaturatedPreCheck ==
    [][\A i \in DOMAIN pc :
          (i \in DOMAIN pc' /\ pc'[i] # pc[i]) =>
             /\ (pc[i] = "precheck" /\ reached_limit)
                   => pc'[i] = "pre_release"
             /\ pc[i] = "pre_release"
                   => /\ pc'[i] = "pre_isset"
                      /\ app_id(i) \notin processed_appids' \cup reserved_appids'
                                            \cup failed_appids'
                      /\ processed_appids' = processed_appids
                      /\ failed_appids' = failed_appids
             /\ pc[i] \in {"pre_release", "pre_isset", "pre_set"}
                   => /\ pc'[i] \in {"pre_isset", "pre_set", "done_F"}
                      /\ value' = value
                      /\ details_file' = details_file
                      /\ pc'[i] = "done_F" => goal_reached']_vars

\* a task released its id after the saturated pre-check and is about to set
\* goal_reached itself
C35_Witness ==
    \E i \in DOMAIN pc :
        /\ pc[i] = "pre_set"
        /\ reached_limit
        /\ ~goal_reached
        /\ app_id(i) \notin processed_appids \cup reserved_appids
                              \cup failed_appids

\* the task is the only one that holds the reservation of its id
SoleHolder(i) ==
    /\ HoldsReservation(pc[i])
    /\ app_id(i) \in reserved_appids
    /\ \A j \in DOMAIN pc :
          (j # i /\ app_id(j) = app_id(i)) => ~HoldsReservation(pc[j])

\* C36: within one run of processar_um_jogo the events come in the order
\* claim, detail fetch, increment, append, mark: each position is entered
\* only from the one before it and by the event that belongs there; an id is
\* added to processed_appids by a task only on the step that follows that
\* task's own append, and every append to the details file is made by the
\* one task that holds the reservation of the record's id.
C36_CausalOrder ==
    [][/\ \A i \in DOMAIN pc :
            (i \in DOMAIN pc' /\ pc'[i] # pc[i]) =>
               /\ pc'[i] = "precheck"
                     => (pc[i] = "reserve"
                         /\ reserved_appids' = reserved_appids \cup {app_id(i)}
                         /\ app_id(i) \notin reserved_appids)
               /\ pc'[i] = "fetch" => pc[i] = "precheck"
               /\ pc'[i] = "increment" => pc[i] = "fetch"
               /\ pc'[i] = "admit_check"
                     => (pc[i] = "increment" /\ value' = value + 1)
               /\ pc'[i] = "persist" => pc[i] = "admit_check"
               /\ pc'[i] = "mark_ok"
                     => (pc[i] = "persist"
                         /\ details_file'[app_id(i)]
                               = details_file[app_id(i)] + 1)
               /\ pc'[i] = "final_check"
                     => (pc[i] = "mark_ok"
                         /\ processed_appids'
                               = processed_appids \cup {app_id(i)})
               /\ pc'[i] \in {"fail_abort", "fail_fetch", "fail_invalid",
                              "fail_admit", "fail_persist"}
                     => pc[i] \in {"fetch", "increment", "admit_check",
                                   "compensate"}
       /\ (mpc \notin {"load", "startup"}
           /\ processed_appids' # processed_appids)
             => \E i \in DOMAIN pc :
                   /\ pc[i] = "mark_ok" /\ pc'[i] = "final_check"
                   /\ details_file[app_id(i)] > 0
       /\ details_file' # details_file
             => \E i \in DOMAIN pc :
                   /\ pc[i] = "persist"
                   /\ SoleHolder(i)
                   /\ current_count[i] > 0
                   /\ details_file'
                         = [details_file EXCEPT ![app_id(i)] = @ + 1]]_vars

\* a task went through all five events and returned True while another
\* task of the same id was refused
C36_Witness ==
    \E i, j \in DOMAIN pc :
        /\ pc[i] = "done_T"
        /\ app_id(i) \in processed_appids
        /\ details_file[app_id(i)] = 1
        /\ value > 0
        /\ j # i /\ app_id(j) = app_id(i) /\ pc[j] = "skip_F"

\* one run in either mode over a catalogue of distinct ids with a batch
\* larger than the target, in which the interrupt signal may arrive at any
\* moment and a fetch may find nothing
InitSignal ==
    /\ MemoryAtStart
    /\ NoFiles
    /\ all_games = [i \in 1..MaxCatalog |-> i]
    /\ max_games = MaxTarget
    /\ batch_size = BatchSize + 1
    /\ checkpoint_interval = CheckpointInterval
    /\ parallel \in BOOLEAN
    /\ inject = {"fetch"}
    /\ run = 1
    /\ lastCall = [t \in Threads |-> NoCall]
    /\ grants = [i \in AppIds |-> 0]
    /\ NoLocks

NextSignal == NextScenario \/ MainSequential \/ Signal

SpecSignal == InitSignal /\ [][NextSignal]_vars

\* C37: a task that begins processar_um_jogo with stop_processing or
\* goal_reached set returns at line 538 and its step changes none of the
\* three sets, the counter or the files, and a returned task takes no
\* further step; main puts a task in the pool or enters a batch only on
\* a step whose flag test found neither flag set, and a flag once set
\* stays set, so nothing is submitted after main saw a flag.
C37_NoWorkAfterFlag ==
    [][/\ \A i \in DOMAIN pc :
            (i \in DOMAIN pc' /\ pc'[i] # pc[i]) =>
               /\ (pc[i] = "pending" /\ (stop_processing \/ goal_reached))
                     => /\ pc'[i] \in {"skip_F", "cancelled"}
                        /\ UNCHANGED <<cmVars, counterVars, diskVars>>
               /\ pc[i] # "skip_F"
               /\ pc'[i] = "pending"
                     => (pc[i] = "unsub" /\ ~stop_processing /\ ~goal_reached)
       /\ (mpc = "batch" /\ mpc' = "submit")
             => (~stop_processing /\ ~goal_reached)
       /\ mpc' \notin {"load", "startup"}
             => /\ stop_processing => stop_processing'
                /\ goal_reached => goal_reached']_vars

\* a task whose id no other task has was started after the signal and
\* returned without a reservation, and main has left its loops
C37_Witness ==
    \E i \in DOMAIN pc :
        /\ pc[i] = "skip_F"
        /\ stop_processing
        /\ \A j \in DOMAIN pc : j # i => app_id(j) # app_id(i)
        /\ app_id(i) \notin processed_appids \cup reserved_appids
                              \cup failed_appids
        /\ details_file[app_id(i)] = 0
        /\ mpc = "finally"

(* ------------- get_proxy called by several threads at once ------------- *)

\* Queue.get_nowait and Queue.put are each atomic, get_proxy as a whole is
\* not (it takes no lock).  lastCall[t] is the frame of thread t's call:
\* op "get_proxy" when the call (or its recursive call of line 116) is about
\* to do get_nowait, "get_nowait" when that returned the entry id, "Empty"
\* when it raised queue.Empty and _init_queue has done cur of its puts.
DrawFrame ==
    UNCHANGED <<cmVars, counterVars, grants, lockVars, runVars, proxies,
                failed_proxies, request, call, net>>

\* a thread calls get_proxy (lines 445, 486)
G_Call(t) ==
    /\ lastCall[t].op = "none"
    /\ lastCall' = [lastCall EXCEPT ![t] = [NoCall EXCEPT !.op = "get_proxy"]]
    /\ UNCHANGED proxy_queue
    /\ DrawFrame

\* line 109: get_nowait returns the head or raises queue.Empty
G_GetNowait(t) ==
    /\ lastCall[t].op = "get_proxy"
    /\ IF proxy_queue # <<>>
          THEN /\ lastCall' = [lastCall EXCEPT ![t] =
                      [NoCall EXCEPT !.op = "get_nowait",
                                     !.id = Head(proxy_queue), !.ret = TRUE]]
               /\ proxy_queue' = Tail(proxy_queue)
          ELSE /\ lastCall' = [lastCall EXCEPT ![t] =
                      [NoCall EXCEPT !.op = "Empty"]]
               /\ UNCHANGED proxy_queue
    /\ DrawFrame

\* lines 111-112: the entry goes back to the tail and the call returns it
G_Put(t) ==
    /\ lastCall[t].op = "get_nowait"
    /\ proxy_queue' = Append(proxy_queue, lastCall[t].id)
    /\ lastCall' = [lastCall EXCEPT ![t] = NoCall]
    /\ DrawFrame

\* lines 113-116: _init_queue puts None and the proxies one put at a time
\* (lines 100-104), then get_proxy calls itself
G_InitQueue(t) ==
    /\ lastCall[t].op = "Empty"
    /\ LET seed == <<None>> \o proxies IN
          IF lastCall[t].cur < Len(seed)
             THEN /\ proxy_queue' = Append(proxy_queue, seed[lastCall[t].cur + 1])
                  /\ lastCall' = [lastCall EXCEPT ![t].cur = @ + 1]
             ELSE /\ lastCall' = [lastCall EXCEPT ![t] =
                         [NoCall EXCEPT !.op = "get_proxy"]]
                  /\ UNCHANGED proxy_queue
    /\ DrawFrame

\* a ProxyManager as __init__ leaves it (lines 65-69), no call under way
InitDraw ==
    /\ InitNetBase
    /\ \E k \in 0..MaxProxies : proxies \in [1..k -> 1..MaxProxies]
    /\ proxy_queue = init_queue(<<>>)
    /\ call = NoFetch
    /\ request = NoRequest

NextDraw ==
    \E t \in Threads :
        G_Call(t) \/ G_GetNowait(t) \/ G_Put(t) \/ G_InitQueue(t)

SpecDraw == InitDraw /\ [][NextDraw]_vars

\* how often e occurs in the list s
Occurrences(s, e) == Cardinality({i \in 1..Len(s) : s[i] = e})

\* C38 (as claimed): whenever no get_proxy call is in progress, the queue
\* holds None and every loaded proxy as often as _init_queue put them (once
\* each), whatever the interleaving of the threads' calls.
C38_QueuePreserved ==
    (\A t \in Threads : lastCall[t].op = "none")
        => \A e \in Drawable :
              Occurrences(proxy_queue, e) = Occurrences(<<None>> \o proxies, e)

(* --------------------------- the lock domains -------------------------- *)

\* the functions whose body is a with block on a lock
LockTaking ==
    {"save_state", "reserve_appid", "mark_processed", "release_reservation",
     "increment", "decrement", "value", "set_max", "reached_limit",
     "safe_save_jsonl", "mark_failed", "update"}

\* the lock each of them takes (lines 195, 237, 251, 266; 299-324; 361; 121;
\* 661)
LockOf(f) ==
    CASE f \in {"save_state", "reserve_appid", "mark_processed",
                "release_reservation"} -> "main_lock"
      [] f \in {"increment", "decrement", "value", "set_max",
                "reached_limit"} -> "counter_lock"
      [] f = "safe_save_jsonl" -> "file_lock"
      [] f = "mark_failed" -> "proxy_lock"
      [] f = "update" -> "tracker_lock"

\* save_state appending through safe_save_jsonl, and safe_save_jsonl saving
\* a checkpoint, each inside its with block
Calls_Nested(f) ==
    CASE f = "save_state" -> {"safe_save_jsonl"}
      [] f = "safe_save_jsonl" -> {"save_state"}
      [] OTHER -> {}

\* the lock-taking functions called inside the with block of f: the blocks
\* work on sets, integers and files and call the logger, nothing else
Calls(f) == {}

Top(t) == lock_stack[t][Len(lock_stack[t])]

LockFrame ==
    UNCHANGED <<cmVars, counterVars, lastCall, grants, runVars, netVars>>

\* a thread that is in no lock-taking function calls one: the call sites in
\* processar_um_jogo, get_app_details, get_app_reviews and main lie outside
\* every with block
L_Call(t) ==
    /\ lock_stack[t] = <<>>
    /\ \E f \in LockTaking :
          lock_stack' = [lock_stack EXCEPT ![t] = <<[fn |-> f, holds |-> FALSE]>>]
    /\ UNCHANGED lock_owner
    /\ LockFrame

\* the with statement gets the lock (threading.Lock is not reentrant)
L_Acquire(t) ==
    /\ lock_stack[t] # <<>>
    /\ ~Top(t).holds
    /\ lock_owner[LockOf(Top(t).fn)] = 0
    /\ lock_owner' = [lock_owner EXCEPT ![LockOf(Top(t).fn)] = t]
    /\ lock_stack' = [lock_stack EXCEPT ![t][Len(lock_stack[t])].holds = TRUE]
    /\ LockFrame

\* the body of the with block: it calls one of the lock-taking functions it
\* calls, or ends, which releases the lock and returns
L_Body(t) ==
    /\ lock_stack[t] # <<>>
    /\ Top(t).holds
    /\ \/ /\ \E g \in Calls(Top(t).fn) :
                lock_stack' = [lock_stack EXCEPT
                                  ![t] = Append(@, [fn |-> g, holds |-> FALSE])]
          /\ UNCHANGED lock_owner
       \/ /\ lock_owner' = [lock_owner EXCEPT ![LockOf(Top(t).fn)] = 0]
          /\ lock_stack' = [lock_stack EXCEPT
                               ![t] = SubSeq(@, 1, Len(@) - 1)]
    /\ LockFrame

InitLocks ==
    /\ InitNetBase
    /\ proxies = <<>>
    /\ proxy_queue = <<None>>
    /\ call = NoFetch
    /\ request = NoRequest

NextLocks == \E t \in Threads : L_Call(t) \/ L_Acquire(t) \/ L_Body(t)

\* a thread inside a with block goes on, and a thread at a with statement
\* gets the lock if the lock is free again and again
SpecLocks ==
    /\ InitLocks
    /\ [][NextLocks]_vars
    /\ \A t \in Threads : WF_vars(L_Body(t)) /\ SF_vars(L_Acquire(t))

\* the locks thread t holds, and the lock it is waiting for
Held(t) == {l \in Locks : lock_owner[l] = t}
WaitsFor(t, l) ==
    lock_stack[t] # <<>> /\ ~Top(t).holds /\ LockOf(Top(t).fn) = l

====
